---- MODULE Spec2Model ----
(***************************************************************************)
(* Model of ecc_batch/views.py: cheque extraction from the pages of a      *)
(* clearing report, the full / accepted / commission ledger batches and    *)
(* the reconciliation of a full batch against re-extracted acceptances.    *)
(*                                                                         *)
(* Text is modelled by TLA+ strings and the Python string methods by       *)
(* operators that compute what the methods compute.  A float amount is a   *)
(* record [u |-> whole units, c |-> hundredths], both of the sign of the   *)
(* amount; values of 10^9 and more are all held as AmountCap units.  A     *)
(* table cell that is None and a cell that is '' are both "": the code     *)
(* tests cells for truthiness only.                                        *)
(***************************************************************************)
EXTENDS Integers, Sequences, FiniteSets, TLC

(***************************************************************************)
(* Python str methods                                                      *)
(***************************************************************************)
DigitChars == {"0", "1", "2", "3", "4", "5", "6", "7", "8", "9"}

UpperChars == {"A", "B", "C", "D", "E", "F", "G", "H", "I", "J", "K", "L", "M",
               "N", "O", "P", "Q", "R", "S", "T", "U", "V", "W", "X", "Y", "Z"}

ascii_lowercase == "abcdefghijklmnopqrstuvwxyz"
ascii_uppercase == "ABCDEFGHIJKLMNOPQRSTUVWXYZ"

LowerToUpper ==
    [c \in {SubSeq(ascii_lowercase, i, i) : i \in 1..26} |->
       LET i == CHOOSE j \in 1..26 : SubSeq(ascii_lowercase, j, j) = c
       IN SubSeq(ascii_uppercase, i, i)]

LowerChars == DOMAIN LowerToUpper

WhiteChars == {" ", "\n", "\t"}

Ch(s, i) == SubSeq(s, i, i)

\* str.isdigit(): non-empty and every character a digit
IsDigit(s) == Len(s) > 0 /\ \A i \in 1..Len(s) : Ch(s, i) \in DigitChars

\* str.isalpha(): non-empty and every character a letter
IsAlpha(s) == Len(s) > 0 /\ \A i \in 1..Len(s) : Ch(s, i) \in UpperChars \cup LowerChars

\* str.isupper(): at least one cased character and no lower-case one
IsUpper(s) == /\ \E i \in 1..Len(s) : Ch(s, i) \in UpperChars
              /\ \A i \in 1..Len(s) : Ch(s, i) \notin LowerChars

\* sub in s
Contains(s, sub) ==
    \E i \in 1..(Len(s) - Len(sub) + 1) : SubSeq(s, i, i + Len(sub) - 1) = sub

RECURSIVE Upper(_)
Upper(s) ==
    IF s = "" THEN ""
    ELSE (IF Head(s) \in LowerChars THEN LowerToUpper[Head(s)] ELSE Head(s))
         \o Upper(Tail(s))

\* s.replace(ch, '') for a one-character ch
RECURSIVE Remove(_, _)
Remove(s, ch) ==
    IF s = "" THEN ""
    ELSE (IF Head(s) = ch THEN "" ELSE Head(s)) \o Remove(Tail(s), ch)

RECURSIVE LStrip(_)
LStrip(s) == IF s # "" /\ Head(s) \in WhiteChars THEN LStrip(Tail(s)) ELSE s

RECURSIVE RStrip(_)
RStrip(s) ==
    IF s # "" /\ Ch(s, Len(s)) \in WhiteChars
    THEN RStrip(SubSeq(s, 1, Len(s) - 1)) ELSE s

\* str.strip()
Strip(s) == RStrip(LStrip(s))

\* str.split(): the maximal runs of non-whitespace characters, in order
RECURSIVE SplitFrom(_, _)
SplitFrom(s, cur) ==
    IF s = "" THEN (IF cur = "" THEN <<>> ELSE <<cur>>)
    ELSE IF Head(s) \in WhiteChars
         THEN (IF cur = "" THEN <<>> ELSE <<cur>>) \o SplitFrom(Tail(s), "")
         ELSE SplitFrom(Tail(s), cur \o Head(s))

Split(s) == SplitFrom(s, "")

(***************************************************************************)
(* float(): amounts                                                        *)
(***************************************************************************)
AmountCap == 1000000000

DigitVal == [d \in DigitChars |->
               CASE d = "0" -> 0 [] d = "1" -> 1 [] d = "2" -> 2 [] d = "3" -> 3
                 [] d = "4" -> 4 [] d = "5" -> 5 [] d = "6" -> 6 [] d = "7" -> 7
                 [] d = "8" -> 8 [] d = "9" -> 9]

\* the value of a digit string, AmountCap for every value >= AmountCap
RECURSIVE NatFrom(_, _)
NatFrom(s, acc) ==
    IF s = "" THEN acc
    ELSE IF acc >= AmountCap \div 10 THEN AmountCap
         ELSE NatFrom(Tail(s), acc * 10 + DigitVal[Head(s)])

NatOf(s) == NatFrom(s, 0)

\* the position of the first '.' of s, 0 when there is none
DotPos(s) ==
    IF Contains(s, ".")
    THEN CHOOSE i \in 1..Len(s) :
            Ch(s, i) = "." /\ \A j \in 1..(i - 1) : Ch(s, j) # "."
    ELSE 0

\* float(s) raises ValueError: s is made of digits, '.' and '-' here, and
\* float() takes one optional leading '-', at most one '.', one digit or more
FloatRaises(s) ==
    LET body == IF s # "" /\ Head(s) = "-" THEN Tail(s) ELSE s
    IN \/ Contains(body, "-")
       \/ ~ IsDigit(Remove(body, "."))
       \/ Len(body) - Len(Remove(body, ".")) > 1

\* float(s) for a string float() accepts; hundredths from the first two
\* decimals (the cells of the model carry at most two)
Float(s) ==
    LET neg  == s # "" /\ Head(s) = "-"
        body == IF neg THEN Tail(s) ELSE s
        dot  == DotPos(body)
        ip   == IF dot = 0 THEN body ELSE SubSeq(body, 1, dot - 1)
        fp   == IF dot = 0 THEN "" ELSE SubSeq(body, dot + 1, Len(body))
        fp2  == SubSeq(fp \o "00", 1, 2)
        u    == NatOf(ip)
        c    == IF u >= AmountCap THEN 0 ELSE NatOf(fp2)
    IN IF neg THEN [u |-> 0 - u, c |-> 0 - c] ELSE [u |-> u, c |-> c]

\* Python None for an amount; None for a string is ""
NoAmount == [u |-> 0, c |-> 0]
None == ""

Negate(a) == [u |-> 0 - a.u, c |-> 0 - a.c]
Positive(a) == a.u > 0 \/ (a.u = 0 /\ a.c > 0)
\* a < n, a > n for a whole number n >= 0
LessThan(a, n) == a.u < n
GreaterThan(a, n) == a.u > n \/ (a.u = n /\ a.c > 0)

(***************************************************************************)
(* Field extraction helpers - table mode.  A row is a sequence of cells;   *)
(* Cell(row, i) is the code's row[i] (indices from 0).                     *)
(***************************************************************************)
Cell(row, i) == row[i + 1]
Indices(row) == 0..(Len(row) - 1)
Min(S) == CHOOSE i \in S : \A j \in S : i <= j
Max(S) == CHOOSE i \in S : \A j \in S : i >= j
Abs(n) == IF n < 0 THEN 0 - n ELSE n

BANK_NAME_FIXES ==
    [k \in {"CITIZE", "KUMARI", "KUMA", "SIDDHA", "SIDDH", "MACHI", "MACHA",
            "SUNRI", "EXCEL"} |->
       CASE k = "CITIZE" -> "CITIZENS"
         [] k = "KUMARI" -> "KUMARI"
         [] k = "KUMA"   -> "KUMARI"
         [] k = "SIDDHA" -> "SIDDHARTHA"
         [] k = "SIDDH"  -> "SIDDHARTHA"
         [] k = "MACHI"  -> "MACHAPUCHARE"
         [] k = "MACHA"  -> "MACHAPUCHARE"
         [] k = "SUNRI"  -> "SUNRISE"
         [] k = "EXCEL"  -> "EXCEL"]

\* bank_name_fixes[name] if name in bank_name_fixes else name
FixBankName(name) ==
    IF name \in DOMAIN BANK_NAME_FIXES THEN BANK_NAME_FIXES[name] ELSE name

IsAccountText(s) == IsDigit(s) /\ 12 <= Len(s) /\ Len(s) <= 17
IsChequeText(s) == IsDigit(s) /\ 6 <= Len(s) /\ Len(s) <= 10

\* the first cell of 12 to 17 digits after column 9 has failed
_extract_bfd_account_first(row) ==
    IF Len(row) > 9 /\ Cell(row, 9) # "" /\ IsAccountText(Strip(Cell(row, 9)))
    THEN Strip(Cell(row, 9))
    ELSE LET cand == {i \in Indices(row) :
                        Cell(row, i) # "" /\ IsAccountText(Strip(Cell(row, i)))}
         IN IF cand = {} THEN None ELSE Strip(Cell(row, Min(cand)))

_extract_bfd_account(row) ==
    IF Len(row) > 9 /\ Cell(row, 9) # "" /\ IsAccountText(Strip(Cell(row, 9)))
    THEN Strip(Cell(row, 9))
    ELSE LET cand == {i \in Indices(row) :
                        Cell(row, i) # "" /\ IsAccountText(Strip(Cell(row, i)))}
             \* sort(key = (len, -abs(i - 9)), reverse = True) is stable:
             \* the first of the candidates with the greatest key
             best(i) == \A j \in cand :
                          \/ Len(Strip(Cell(row, i))) > Len(Strip(Cell(row, j)))
                          \/ /\ Len(Strip(Cell(row, i))) = Len(Strip(Cell(row, j)))
                             /\ Abs(i - 9) <= Abs(j - 9)
         IN IF cand = {} THEN None
            ELSE Strip(Cell(row, Min({i \in cand : best(i)})))

\* the scan without the look at column 6
_extract_cheque_number_scan(row) ==
    LET cand == {i \in Indices(row) :
                   Cell(row, i) # "" /\ IsChequeText(Strip(Cell(row, i)))}
    IN IF cand = {} THEN None ELSE Strip(Cell(row, Min(cand)))

_extract_cheque_number(row) ==
    IF Len(row) > 6 /\ Cell(row, 6) # "" /\ IsChequeText(Strip(Cell(row, 6)))
    THEN Strip(Cell(row, 6))
    ELSE LET cand == {i \in Indices(row) :
                        Cell(row, i) # "" /\ IsChequeText(Strip(Cell(row, i)))}
         IN IF cand = {} THEN None ELSE Strip(Cell(row, Min(cand)))

\* the digits-only test both amount paths apply after removing the commas
AmountShape(s) == IsDigit(Remove(Remove(Remove(s, ","), "."), "-"))

\* the primary amount column: col[13], any positive value
PrimaryAmount(row) ==
    IF Len(row) > 13 /\ Cell(row, 13) # ""
    THEN LET s == Strip(Cell(row, 13))
         IN IF /\ (Contains(s, ",") \/ Contains(s, ".") \/ IsDigit(s))
               /\ AmountShape(s)
               /\ ~ FloatRaises(Remove(s, ","))
               /\ Positive(Float(Remove(s, ",")))
            THEN Float(Remove(s, ","))
            ELSE NoAmount
    ELSE NoAmount

\* what one cell gives the fallback scan of _extract_amount
ScanAmount(cell) ==
    LET s == Strip(cell)
    IN IF cell = "" THEN NoAmount
       ELSE IF Contains(s, ",") \/ Contains(s, ".")
            THEN IF /\ AmountShape(s)
                    /\ ~ FloatRaises(Remove(s, ","))
                    /\ Positive(Float(Remove(s, ",")))
                    /\ LessThan(Float(Remove(s, ",")), 100000000)
                 THEN Float(Remove(s, ","))
                 ELSE NoAmount
            ELSE IF /\ IsDigit(s) /\ Len(s) >= 3
                    /\ Positive(Float(s)) /\ LessThan(Float(s), 100000000)
                 THEN Float(s)
                 ELSE NoAmount

_extract_amount(row) ==
    IF PrimaryAmount(row) # NoAmount THEN PrimaryAmount(row)
    ELSE LET cand == {i \in Indices(row) : ScanAmount(Cell(row, i)) # NoAmount}
         IN IF cand = {} THEN NoAmount ELSE ScanAmount(Cell(row, Min(cand)))

_extract_branch_code(row) ==
    IF /\ Len(row) > 7 /\ Cell(row, 7) # ""
       /\ IsDigit(Strip(Cell(row, 7))) /\ Len(Strip(Cell(row, 7))) = 3
    THEN Strip(Cell(row, 7))
    ELSE LET cand == {i \in Indices(row) :
                        /\ Cell(row, i) # ""
                        /\ IsDigit(Strip(Cell(row, i)))
                        /\ Len(Strip(Cell(row, i))) = 3
                        /\ Strip(Cell(row, i)) # "201"}
         IN IF cand = {} THEN None ELSE Strip(Cell(row, Min(cand)))

\* ''.join(s.split('\n')).strip()
JoinLines(s) == Strip(Remove(s, "\n"))

IsPayAccountText(s) == IsDigit(s) /\ Len(s) >= 8

\* <<pay_bank_name, pay_account>>
_extract_bank_info(row) ==
    LET c11  == IF Len(row) > 11 /\ Cell(row, 11) # ""
                THEN Strip(Cell(row, 11)) ELSE ""
        raw  == IF Contains(c11, "\n") THEN JoinLines(c11)
                ELSE IF IsAlpha(c11) \/ (c11 # "" /\ ~ IsDigit(c11))
                     THEN Upper(c11) ELSE None
        name == IF raw # None THEN FixBankName(raw) ELSE None
        acc  == IF /\ Len(row) > 12 /\ Cell(row, 12) # ""
                   /\ IsPayAccountText(Strip(Cell(row, 12)))
                THEN Strip(Cell(row, 12)) ELSE None
        hit  == {i \in Indices(row) :
                   /\ Cell(row, i) # ""
                   /\ IsDigit(Strip(Cell(row, i)))
                   /\ 3 <= Len(Strip(Cell(row, i)))
                   /\ Len(Strip(Cell(row, i))) <= 4
                   /\ i < Len(row) - 2
                   /\ i + 1 < Len(row)
                   /\ Cell(row, i + 1) # ""
                   /\ Strip(Cell(row, i + 1)) # ""
                   /\ \/ IsAlpha(Strip(Cell(row, i + 1)))
                      \/ Contains(Strip(Cell(row, i + 1)), "\n")}
        i0   == Min(hit)
        nxt  == Strip(Cell(row, i0 + 1))
        acc2 == IF /\ i0 + 2 < Len(row) /\ Cell(row, i0 + 2) # ""
                   /\ IsPayAccountText(Strip(Cell(row, i0 + 2)))
                THEN Strip(Cell(row, i0 + 2)) ELSE acc
    IN IF name # None \/ hit = {} THEN <<name, acc>>
       ELSE <<FixBankName(IF Contains(nxt, "\n") THEN JoinLines(nxt) ELSE Upper(nxt)),
              acc2>>

reason_keywords ==
    {"INSUFFICIENT", "SIGNATURE", "ACCOUNT", "CLOSED", "STOP", "PAYMENT",
     "DRAWER", "IRREGUL", "FUNDS", "REFER", "EXCEEDS", "AMOUNT", "WORDS",
     "FIGURES", "DIFFER", "POST", "DATED", "STALE", "MUTILATED", "CLEARING",
     "ENDORSEMENT", "ACCEPTED", "INVALID", "WRONG"}

\* s.replace(',', '').replace('.', '').isdigit()
IsNumericText(s) == IsDigit(Remove(Remove(s, ","), "."))

\* a reason extractor that scans from the first cell to the last
_extract_reason_forward(row) ==
    LET ok(i) == LET s == Upper(Strip(Cell(row, i)))
                 IN Cell(row, i) # "" /\ Len(s) >= 3
        cand == {i \in Indices(row) : ok(i)}
    IN IF cand = {} THEN None ELSE Upper(Strip(Cell(row, Min(cand))))

_extract_reason(row) ==
    LET p == IF Len(row) > 13 /\ Cell(row, 13) # ""
             THEN Upper(Strip(Cell(row, 13))) ELSE ""
        ok(i) == LET s == Upper(Strip(Cell(row, i)))
                 IN /\ Cell(row, i) # ""
                    /\ ~ IsNumericText(s)
                    /\ Len(s) >= 3
                    /\ s \notin {"CLG", "BANK", "ENDORSEMENT", "BFD", "PAY", "ACCOUNT"}
                    /\ \/ \E k \in reason_keywords : Contains(s, k)
                       \/ Contains(s, " ") /\ \E j \in 1..Len(s) : IsAlpha(Ch(s, j))
        cand == {i \in Indices(row) : ok(i)}
    IN IF Len(p) >= 3 /\ ~ IsNumericText(p) THEN p
       ELSE IF cand = {} THEN None
            ELSE Upper(Strip(Cell(row, Max(cand))))


(***************************************************************************)
(* Field extraction helpers - text mode.  parts is line.split().           *)
(***************************************************************************)
\* a < b for digit strings of one length (Python compares them by character)
RECURSIVE DigitsLess(_, _)
DigitsLess(a, b) ==
    IF a = "" \/ b = "" THEN FALSE
    ELSE \/ DigitVal[Head(a)] < DigitVal[Head(b)]
         \/ Head(a) = Head(b) /\ DigitsLess(Tail(a), Tail(b))

\* candidates.sort(reverse=True) on (len(p), p): the longest, then the greatest
_extract_bfd_account_from_parts(parts) ==
    LET cand == {parts[i] : i \in {j \in 1..Len(parts) : IsAccountText(parts[j])}}
    IN IF cand = {} THEN None
       ELSE CHOOSE p \in cand :
              \A q \in cand : \/ Len(p) > Len(q)
                              \/ Len(p) = Len(q) /\ ~ DigitsLess(p, q)

bank_name_fix_values == {BANK_NAME_FIXES[k] : k \in DOMAIN BANK_NAME_FIXES}

\* <<pay_bank_name, pay_account>>; line_idx counts from 0, all_lines is the
\* sequence of the page's lines
_extract_bank_info_from_parts(parts, line_idx, all_lines) ==
    LET hit == {i \in 1..Len(parts) :
                  /\ IsAlpha(parts[i]) /\ 2 <= Len(parts[i]) /\ Len(parts[i]) <= 12
                  /\ IsUpper(parts[i])
                  /\ parts[i] \notin {"ACCEPTED", "Bank", "Endorsement", "Irregular",
                                      "Fund", "BFD", "PAY"}}
        i0   == Min(hit)
        part == parts[i0]
        nlp  == IF line_idx + 1 < Len(all_lines)
                THEN Split(all_lines[line_idx + 2]) ELSE <<>>
        comb == part \o nlp[1]
        useComb == /\ line_idx + 1 < Len(all_lines) /\ Len(part) < 6
                   /\ nlp # <<>> /\ IsAlpha(nlp[1]) /\ Len(nlp[1]) <= 6
                   /\ (comb \in bank_name_fix_values \/ Len(comb) >= 4)
        name == IF useComb THEN comb ELSE FixBankName(part)
        acc  == IF i0 + 1 <= Len(parts) /\ IsPayAccountText(parts[i0 + 1])
                THEN parts[i0 + 1] ELSE None
    IN IF hit = {} THEN <<None, None>> ELSE <<name, acc>>

_extract_cheque_number_from_parts(parts) ==
    LET cand == {i \in 1..Len(parts) : IsChequeText(parts[i])}
    IN IF cand = {} THEN None ELSE parts[Min(cand)]

\* the comma / decimal pass and the bare-digit pass over one token
CommaAmount(p) ==
    IF /\ (Contains(p, ",") \/ Contains(p, "."))
       /\ AmountShape(p)
       /\ ~ FloatRaises(Remove(p, ","))
       /\ Positive(Float(Remove(p, ",")))
       /\ LessThan(Float(Remove(p, ",")), 100000000)
    THEN Float(Remove(p, ",")) ELSE NoAmount

DigitAmount(p) ==
    IF /\ IsDigit(p) /\ Len(p) >= 3
       /\ Positive(Float(p)) /\ LessThan(Float(p), 100000000)
    THEN Float(p) ELSE NoAmount

_extract_amount_from_parts(parts) ==
    LET c1 == {i \in 1..Len(parts) : CommaAmount(parts[i]) # NoAmount}
        c2 == {i \in 1..Len(parts) : DigitAmount(parts[i]) # NoAmount}
    IN IF c1 # {} THEN CommaAmount(parts[Max(c1)])
       ELSE IF c2 # {} THEN DigitAmount(parts[Max(c2)])
            ELSE NoAmount

_extract_branch_code_from_parts(parts) ==
    LET cand == {i \in 1..Len(parts) :
                   IsDigit(parts[i]) /\ Len(parts[i]) = 3 /\ parts[i] # "201"}
    IN IF cand = {} THEN None ELSE parts[Min(cand)]

text_reason_keywords == reason_keywords \ {"INVALID", "WRONG"}

RECURSIVE JoinSpace(_)
JoinSpace(ps) ==
    IF ps = <<>> THEN ""
    ELSE IF Len(ps) = 1 THEN ps[1]
         ELSE ps[1] \o " " \o JoinSpace(Tail(ps))

\* a token the backward walk of _extract_reason_from_parts collects
KeepReasonPart(p) ==
    \/ \E k \in text_reason_keywords : Contains(Upper(p), k)
    \/ /\ Len(p) >= 3 /\ IsAlpha(p)
       /\ Upper(p) \notin {"CLG", "BANK", "BFD", "PAY"}

RECURSIVE ReasonParts(_)
ReasonParts(ps) ==
    IF ps = <<>> THEN <<>>
    ELSE (IF KeepReasonPart(ps[1]) THEN <<ps[1]>> ELSE <<>>) \o ReasonParts(Tail(ps))

\* the walk stops at the last token with a comma and a digit
_extract_reason_from_parts(parts) ==
    LET isAmt(p) == Contains(p, ",") /\ \E j \in 1..Len(p) : Ch(p, j) \in DigitChars
        stops == {i \in 1..Len(parts) : isAmt(parts[i])}
        after == IF stops = {} THEN parts
                 ELSE SubSeq(parts, Max(stops) + 1, Len(parts))
    IN JoinSpace(ReasonParts(after))

(***************************************************************************)
(* Data filtering and Excel generation - batch format.  A sheet row is a   *)
(* record of its seven cells, named by the batch headers.                  *)
(***************************************************************************)
\* a test on the reason as it is written
IsAcceptedAsWritten(record) ==
    LET reason == IF "reason" \in DOMAIN record THEN record.reason ELSE ""
    IN Contains(Strip(reason), "ACCEPTED")

\* 'ACCEPTED' in str(record.get('reason', '')).upper().strip()
IsAccepted(record) ==
    LET reason == IF "reason" \in DOMAIN record THEN record.reason ELSE ""
    IN Contains(Strip(Upper(reason)), "ACCEPTED")

\* a filter that keeps every record
FilterKeepsAll(data) == data

filter_accepted_cheques(data) == SelectSeq(data, IsAccepted)

headers == <<"BRANCHCODE", "MAINCODE", "TRANCODE", "AMOUNT", "LCYAMOUNT",
             "DESC1", "DESC2">>

\* str(record['pay_bank_name']).upper().replace(' ', '')
PayBank(record) == Remove(Upper(record.pay_bank_name), " ")

\* maincode[:3] if len(maincode) >= 3 else maincode
BranchOf(maincode) == IF Len(maincode) >= 3 THEN SubSeq(maincode, 1, 3) ELSE maincode

\* a debit row written with the other transaction code
DebitEntryCode055(record) ==
    [BRANCHCODE |-> BranchOf(record.bfd_account),
     MAINCODE   |-> record.bfd_account,
     TRANCODE   |-> "055",
     AMOUNT     |-> record.cheque_amount,
     LCYAMOUNT  |-> record.cheque_amount,
     DESC1      |-> "",
     DESC2      |-> "CLG " \o PayBank(record) \o " " \o record.cheque_number]

DebitEntry(record) ==
    [BRANCHCODE |-> BranchOf(record.bfd_account),
     MAINCODE   |-> record.bfd_account,
     TRANCODE   |-> "555",
     AMOUNT     |-> record.cheque_amount,
     LCYAMOUNT  |-> record.cheque_amount,
     DESC1      |-> "",
     DESC2      |-> "CLG " \o PayBank(record) \o " " \o record.cheque_number]

\* a credit row that repeats the debit amount
CreditEntrySameSign(record, clearing_account, clearing_branch) ==
    [BRANCHCODE |-> clearing_branch,
     MAINCODE   |-> clearing_account,
     TRANCODE   |-> "055",
     AMOUNT     |-> record.cheque_amount,
     LCYAMOUNT  |-> record.cheque_amount,
     DESC1      |-> "CLG TFR " \o record.bfd_account,
     DESC2      |-> Strip(PayBank(record) \o " " \o Strip(record.pay_account))]

CreditEntry(record, clearing_account, clearing_branch) ==
    [BRANCHCODE |-> clearing_branch,
     MAINCODE   |-> clearing_account,
     TRANCODE   |-> "055",
     AMOUNT     |-> Negate(record.cheque_amount),
     LCYAMOUNT  |-> Negate(record.cheque_amount),
     DESC1      |-> "CLG TFR " \o record.bfd_account,
     DESC2      |-> Strip(PayBank(record) \o " " \o Strip(record.pay_account))]

\* the rows the loop writes, one per record, in the order of data
_write_debit_entries(data) == [i \in 1..Len(data) |-> DebitEntry(data[i])]

_write_credit_entries(data, clearing_account, clearing_branch) ==
    [i \in 1..Len(data) |-> CreditEntry(data[i], clearing_account, clearing_branch)]

\* the workbook: the header in sheet row 0, then the rows from sheet row 1
generate_excel_batch(data, clearing_account, clearing_branch) ==
    [header |-> headers,
     rows   |-> _write_debit_entries(data)
                  \o _write_credit_entries(data, clearing_account, clearing_branch)]

(***************************************************************************)
(* Commission batch                                                        *)
(***************************************************************************)
DigitText == [d \in 0..9 |->
                CASE d = 0 -> "0" [] d = 1 -> "1" [] d = 2 -> "2" [] d = 3 -> "3"
                  [] d = 4 -> "4" [] d = 5 -> "5" [] d = 6 -> "6" [] d = 7 -> "7"
                  [] d = 8 -> "8" [] d = 9 -> "9"]

RECURSIVE NatText(_)
NatText(n) == IF n < 10 THEN DigitText[n] ELSE NatText(n \div 10) \o DigitText[n % 10]

\* f"{amt_int}": int(cheque_amt) when the amount is whole, else the float
AmountText(a) ==
    IF a.c = 0 THEN NatText(a.u)
    ELSE NatText(a.u) \o "." \o DigitText[a.c \div 10]
           \o (IF a.c % 10 = 0 THEN "" ELSE DigitText[a.c % 10])

\* a threshold test that lets the threshold itself through
EligibleAtThreshold(record, amount_threshold) ==
    ~ LessThan(record.cheque_amount, amount_threshold)

\* float(record.get('cheque_amount', 0)) > amount_threshold
Eligible(record, amount_threshold) == GreaterThan(record.cheque_amount, amount_threshold)

CommissionEligible(data, amount_threshold) ==
    LET over(record) == Eligible(record, amount_threshold)
    IN SelectSeq(data, over)

\* a commission debit of the cheque amount
CommissionDebitOfCheque(record, commission_amount, clearing_branch) ==
    [BRANCHCODE |-> IF Len(record.bfd_account) >= 3
                    THEN SubSeq(record.bfd_account, 1, 3) ELSE clearing_branch,
     MAINCODE   |-> record.bfd_account,
     TRANCODE   |-> "055",
     AMOUNT     |-> Negate(record.cheque_amount),
     LCYAMOUNT  |-> Negate(record.cheque_amount),
     DESC1      |-> "Ecc Charge Rs." \o AmountText(record.cheque_amount),
     DESC2      |-> "CLG " \o PayBank(record) \o " " \o record.cheque_number]

CommissionDebit(record, commission_amount, clearing_branch) ==
    [BRANCHCODE |-> IF Len(record.bfd_account) >= 3
                    THEN SubSeq(record.bfd_account, 1, 3) ELSE clearing_branch,
     MAINCODE   |-> record.bfd_account,
     TRANCODE   |-> "055",
     AMOUNT     |-> Negate(commission_amount),
     LCYAMOUNT  |-> Negate(commission_amount),
     DESC1      |-> "Ecc Charge Rs." \o AmountText(record.cheque_amount),
     DESC2      |-> "CLG " \o PayBank(record) \o " " \o record.cheque_number]

CommissionCredit(record, commission_account, commission_amount, clearing_branch) ==
    [BRANCHCODE |-> clearing_branch,
     MAINCODE   |-> commission_account,
     TRANCODE   |-> "555",
     AMOUNT     |-> commission_amount,
     LCYAMOUNT  |-> commission_amount,
     DESC1      |-> "Ecc Charge Rs." \o AmountText(record.cheque_amount),
     DESC2      |-> record.bfd_account]

\* the commission workbook: no header, the rows from sheet row 0
CommissionSheet(eligible, commission_account, commission_amount, clearing_branch) ==
    [header |-> <<>>,
     rows   |-> [i \in 1..Len(eligible) |->
                   CommissionDebit(eligible[i], commission_amount, clearing_branch)]
                \o [i \in 1..Len(eligible) |->
                      CommissionCredit(eligible[i], commission_account,
                                       commission_amount, clearing_branch)]]

(***************************************************************************)
(* Reconciliation: generate_final_batch                                    *)
(***************************************************************************)
\* the accepted cheque numbers of the re-extracted document
AcceptedChequeNumbers(data) ==
    {Strip(data[i].cheque_number) : i \in {j \in 1..Len(data) : IsAccepted(data[j])}}

\* the rows of the sheet with one transaction code, in sheet order
RowsWithCode(rows, code) ==
    LET has(r) == Strip(r.TRANCODE) = code
    IN SelectSeq(rows, has)

\* the first token in place of the last
FirstToken(desc2) ==
    LET parts == Split(Strip(desc2))
    IN IF parts = <<>> THEN "" ELSE parts[1]

\* parts[-1] if parts else '' of str(row_555[6]).strip().split()
LastToken(desc2) ==
    LET parts == Split(Strip(desc2))
    IN IF parts = <<>> THEN "" ELSE parts[Len(parts)]

\* a length test that never fails
NeverStructureError(rows_555, rows_055) == FALSE

\* len(rows_555) != len(rows_055)
StructureError(rows_555, rows_055) == Len(rows_555) # Len(rows_055)

\* the indices (from 1) of the pairs the matching loop keeps
KeptIndices(rows_555, accepted) ==
    {i \in 1..Len(rows_555) : LastToken(rows_555[i].DESC2) \in accepted}

RECURSIVE PickRows(_, _, _)
PickRows(rows, keep, i) ==
    IF i > Len(rows) THEN <<>>
    ELSE (IF i \in keep THEN <<rows[i]>> ELSE <<>>) \o PickRows(rows, keep, i + 1)

(***************************************************************************)
(* The documents: table rows and text lines the decoder can hand over      *)
(***************************************************************************)
RowInsufficient ==
    <<"1", "", "", "", "", "", "1234567", "255", "", "98765432109876", "",
      "CITIZE", "12345678", "50,000.00", "INSUFFICIENT FUNDS">>
RowAccepted ==
    <<"2", "", "", "", "", "", "222222", "255", "", "001234567890123", "",
      "KUMA", "0987654321", "250,000.00", "Accepted">>
RowOverLimit ==
    <<"3", "", "", "", "", "", "333333", "255", "", "001234567890124", "",
      "SUNRI", "0987654322", "100,000,000.00", "ACCEPTED">>
RowNoCheque ==
    <<"4", "", "", "", "", "", "", "255", "", "001234567890125", "",
      "EXCEL", "", "1,500.50", "ACCEPTED">>
RowNoAccount ==
    <<"5", "", "", "", "", "", "444444", "255", "", "", "",
      "EXCEL", "0987654323", "1,500.50", "ACCEPTED">>
RowNoAmount ==
    <<"6", "", "", "", "", "", "1234567890", "", "", "001234567890126", "",
      "EXCEL", "", "", "ACCEPTED">>
RowHeader ==
    <<"SN", "", "", "", "", "", "555555", "255", "", "001234567890127", "",
      "EXCEL", "0987654324", "2,000.00", "ACCEPTED">>
RowShort == <<"7", "666666", "255", "001234567890128", "EXCEL", "3,000.00",
              "ACCEPTED", "">>

RowPool == {RowInsufficient, RowAccepted, RowOverLimit, RowNoCheque,
            RowNoAccount, RowNoAmount, RowHeader, RowShort}

LineAccepted ==
    "2 11 22 222222 255 001234567890123 KUMA 0987654321 250,000.00 ACCEPTED"
LineNoAccount == "5 11 22 444444 255 33 EXCEL 0987654323 1,500.50 ACCEPTED"
LineFooter == "TOTAL 2 300,000.00"

LinePool == {LineAccepted, LineNoAccount, LineFooter}

MaxPages == 2
MaxTables == 2
MaxRows == 3

\* an object whose str() raises in place of a cell, and one whose split()
\* raises in place of a line; the rows of the model carry the first in the
\* first cell or in a primary column only
RaisingCell == "<str() raises>"
RaisingLine == "<split() raises>"

RowRaising ==
    <<RaisingCell, "", "", "", "", "", "777777", "255", "", "001234567890129", "",
      "EXCEL", "0987654325", "4,000.00", "ACCEPTED">>

LineInsufficient ==
    "1 11 22 1234567 255 98765432109876 CITIZE 12345678 50,000.00 Insufficient Funds"
\* a bank name that the report wrapped onto the following line
LineWrapped ==
    "3 11 22 333333 255 001234567890124 SIDDH 0987654322 75,000.00 ACCEPTED"
LineWrappedRest == "A 12"

\* a page is what the decoder gives for it: extract_tables() and extract_text()
PageTable ==
    [tables |-> << <<RowHeader, RowInsufficient>>, <<RowAccepted>> >>,
     text   |-> LineAccepted]
PageNoRecords ==
    [tables |-> << <<RowHeader, RowShort>> >>,
     text   |-> LineAccepted]
PageRaising ==
    [tables |-> << <<RowAccepted, RowRaising, RowInsufficient>>, <<RowNoCheque>> >>,
     text   |-> ""]
PageText ==
    [tables |-> <<>>,
     text   |-> LineInsufficient \o "\n" \o LineFooter \o "\n" \o LineAccepted]
PageTextRaising ==
    [tables |-> <<>>,
     text   |-> LineInsufficient \o "\n" \o RaisingLine \o "\n" \o LineAccepted]
PageWrapped ==
    [tables |-> <<>>,
     text   |-> LineWrapped \o "\n" \o LineWrappedRest]
PageBlank == [tables |-> <<>>, text |-> ""]

\* the documents of the runs over known documents
Documents ==
    {<<PageTable, PageText>>, <<PageText, PageTable>>, <<PageNoRecords, PageBlank>>,
     <<PageRaising, PageTextRaising>>, <<PageWrapped>>, <<PageNoRecords, PageText>>}

\* a document whose pages are taken as the decoder hands them over
AnyPdf == <<[tables |-> <<>>, text |-> "<any>"]>>

MaxRuns == 3

RECURSIVE SeqsUpTo(_, _)
SeqsUpTo(S, n) ==
    IF n = 0 THEN {<<>>}
    ELSE LET shorter == SeqsUpTo(S, n - 1)
         IN shorter \cup {Append(q, e) : q \in {r \in shorter : Len(r) = n - 1}, e \in S}

(***************************************************************************)
(* The request: form fields, uploaded workbooks, responses                 *)
(***************************************************************************)
NoSheet == [header |-> <<>>, rows |-> <<>>]
NoResponse == [status |-> 0, body |-> ""]
Error(status, message) == [status |-> status, body |-> message]
File(filename) == [status |-> 200, body |-> filename]

\* the defaults of request.POST.get(...)
DefaultForm ==
    [clearing_account   |-> "9313102000",
     clearing_branch    |-> "255",
     commission_account |-> "9505062601",
     commission_amount  |-> [u |-> 15, c |-> 0],
     amount_threshold   |-> 200000]

ClearingAccounts == {"9313102000"}
CommissionAccounts == {"9505062601"}
ClearingBranches == {"255", "101"}
CommissionAmounts == {[u |-> 15, c |-> 0], [u |-> 25, c |-> 50]}
AmountThresholds == {200000, 50000, 10000}

(***************************************************************************)
(* State                                                                   *)
(***************************************************************************)
VARIABLES
    pc,                 \* where the request is
    view,               \* the view that handles it, and its batch_type
    uploads,            \* the documents a request can carry
    pdf,                \* the document of the request
    page_num,           \* pages done
    table_idx,          \* tables of the page done
    row_idx,            \* rows of the table, or lines of the page, done
    row,                \* the row in hand (<<>> outside the row loop)
    lines,              \* text.split('\n') of a text-mode page
    rows_read,          \* rows and lines handed over so far
    page_records,       \* records of _extract_from_table / _extract_from_text
    extracted_records,  \* extract_pdf_data's extracted_records
    form,               \* the fields of request.POST the view reads
    xls_file,           \* the uploaded full-batch workbook (final batch only)
    data,               \* the records handed to the writer (data / eligible)
    accepted_cheque_numbers,
    rows_555,
    rows_055,
    kept_555,
    kept_055,
    worksheet,          \* the workbook the view wrote
    response,           \* the response the view returned
    log,                \* the known documents extracted so far, with the records returned
    runs,               \* requests answered
    temp_pdf_path,      \* the view's name for the saved PDF, None until bound
    temp_xls_path,      \* the same for the saved workbook (final batch only)
    output_path,        \* the view's name for the workbook it wrote
    files,              \* the temporary files on disk
    remove_failed,      \* the files on which os.remove raised
    fn,                 \* the helper called on its own, "" before the call
    args,               \* its arguments
    ret                 \* what it returned

extractVars == <<page_num, table_idx, row_idx, row, lines, rows_read,
                 page_records>>
finalVars == <<xls_file, accepted_cheque_numbers, rows_555, rows_055, kept_555,
               kept_055>>
outVars == <<form, data, worksheet, response>>
callVars == <<fn, args, ret>>
fileVars == <<temp_pdf_path, temp_xls_path, output_path, files, remove_failed>>

vars == <<pc, view, uploads, pdf, extractVars, extracted_records, finalVars,
          outVars, log, runs, callVars, fileVars>>

Views == {"generate_batch:full", "generate_batch:accepted",
          "generate_commission_batch", "generate_final_batch"}

NoArgs == [kind |-> "", row |-> <<>>, data |-> <<>>, idx |-> 0, lines |-> <<>>]

\* the names tempfile.NamedTemporaryFile gives the three files of a request
PdfPath == "/tmp/tmp_upload.pdf"
XlsPath == "/tmp/tmp_upload.xls"
OutPath == "/tmp/tmp_output.xls"

\* the names of a request before the view has bound them
RequestInit ==
    /\ pc = "idle"
    /\ view = ""
    /\ pdf = AnyPdf
    /\ page_num = 0
    /\ table_idx = 0
    /\ row_idx = 0
    /\ row = <<>>
    /\ lines = <<>>
    /\ rows_read = 0
    /\ page_records = <<>>
    /\ extracted_records = <<>>
    /\ form = DefaultForm
    /\ xls_file = NoSheet
    /\ data = <<>>
    /\ accepted_cheque_numbers = {}
    /\ rows_555 = <<>>
    /\ rows_055 = <<>>
    /\ kept_555 = <<>>
    /\ kept_055 = <<>>
    /\ worksheet = NoSheet
    /\ response = NoResponse
    /\ log = <<>>
    /\ runs = 0
    /\ temp_pdf_path = None
    /\ temp_xls_path = None
    /\ output_path = None
    /\ files = {}
    /\ remove_failed = {}

Init ==
    /\ RequestInit
    /\ uploads = {AnyPdf}
    /\ fn = ""
    /\ args = NoArgs
    /\ ret = <<>>

(***************************************************************************)
(* extract_pdf_data, _extract_from_table, _extract_from_text               *)
(***************************************************************************)
HEADER_LABELS == {"SESSION", "SN", "S.N", "S.N.", "SR", "NO", "SERIAL", "DATE",
                  "SEQUENCE"}

\* an admission test on the first cell as it is written
RowAdmittedAsWritten(r) ==
    /\ Len(r) >= 9
    /\ r[1] \notin HEADER_LABELS
    /\ ~ Contains(r[1], "TOTAL")
    /\ ~ Contains(r[1], "END OF REPORT")

\* a table row the loop passes to the field extractors
RowAdmitted(r) ==
    LET first_cell == IF r[1] # "" THEN Upper(Strip(r[1])) ELSE ""
    IN /\ Len(r) >= 9
       /\ first_cell \notin HEADER_LABELS
       /\ ~ Contains(first_cell, "TOTAL")
       /\ ~ Contains(first_cell, "END OF REPORT")

\* a gate that forgets the cheque number
MandatoryWithoutCheque(bfd_account, cheque_amount, cheque_number) ==
    bfd_account # None /\ cheque_amount # NoAmount

\* the records.append(...) test
Mandatory(bfd_account, cheque_amount, cheque_number) ==
    bfd_account # None /\ cheque_amount # NoAmount /\ cheque_number # None

Record(bfd_account, cheque_amount, bank, cheque_number, branch_code, reason) ==
    [bfd_account   |-> bfd_account,
     cheque_amount |-> cheque_amount,
     pay_bank_name |-> IF bank[1] # None THEN bank[1] ELSE "CLG",
     pay_account   |-> IF bank[2] # None THEN bank[2] ELSE "",
     cheque_number |-> cheque_number,
     branch_code   |-> IF branch_code # None THEN branch_code ELSE "255",
     reason        |-> IF reason # None THEN reason ELSE ""]

\* the records one table row adds to records
TableRowRecords(r) ==
    IF r # <<>> /\ RowAdmitted(r)
          /\ Mandatory(_extract_bfd_account(r), _extract_amount(r),
                       _extract_cheque_number(r))
    THEN <<Record(_extract_bfd_account(r), _extract_amount(r),
                  _extract_bank_info(r), _extract_cheque_number(r),
                  _extract_branch_code(r), _extract_reason(r))>>
    ELSE <<>>

\* the try body raises on the row: str(row[0]) of a row long enough, or the
\* str() of a primary column in a field extractor
RowRaises(r) ==
    /\ Len(r) >= 9
    /\ \/ r[1] = RaisingCell
       \/ /\ RowAdmitted(r)
          /\ \E i \in {6, 7, 9, 11, 12, 13} \cap Indices(r) : Cell(r, i) = RaisingCell

\* records after the handler that drops what the row had
RowExceptionClears(records) == <<>>

\* except Exception: continue - records is as it was
OnRowException(records) == records

\* a text line the loop passes to the field extractors
LineAdmitted(parts) ==
    /\ Len(parts) >= 9
    /\ \E i \in 1..Len(parts) : IsChequeText(parts[i])
    /\ \E i \in 1..Len(parts) :
          \/ Contains(parts[i], ",")
          \/ /\ Contains(parts[i], ".")
             /\ \E j \in 1..Len(parts[i]) : Ch(parts[i], j) \in DigitChars

\* the records line idx (from 0) of all_lines adds to records
TextLineRecords(idx, all_lines) ==
    LET parts == Split(all_lines[idx + 1])
    IN IF LineAdmitted(parts)
          /\ Mandatory(_extract_bfd_account_from_parts(parts),
                       _extract_amount_from_parts(parts),
                       _extract_cheque_number_from_parts(parts))
       THEN <<Record(_extract_bfd_account_from_parts(parts),
                     _extract_amount_from_parts(parts),
                     _extract_bank_info_from_parts(parts, idx, all_lines),
                     _extract_cheque_number_from_parts(parts),
                     _extract_branch_code_from_parts(parts),
                     _extract_reason_from_parts(parts))>>
       ELSE <<>>

\* the try body raises on line idx: its own split(), or the split() of the
\* following line when _extract_bank_info_from_parts looks ahead
LineRaises(idx, all_lines) ==
    \/ all_lines[idx + 1] = RaisingLine
    \/ /\ idx + 1 < Len(all_lines)
       /\ all_lines[idx + 2] = RaisingLine
       /\ LET parts == Split(all_lines[idx + 1])
              hit == {i \in 1..Len(parts) :
                        /\ IsAlpha(parts[i]) /\ 2 <= Len(parts[i])
                        /\ Len(parts[i]) <= 12 /\ IsUpper(parts[i])
                        /\ parts[i] \notin {"ACCEPTED", "Bank", "Endorsement",
                                            "Irregular", "Fund", "BFD", "PAY"}}
          IN LineAdmitted(parts) /\ hit # {} /\ Len(parts[Min(hit)]) < 6

\* except Exception: continue - records is as it was
OnLineException(records) == records

\* text.split('\n'): the stretches between the line breaks, empty ones kept
SplitLines(text) ==
    LET nl == {i \in 1..Len(text) : Ch(text, i) = "\n"}
        \* the position of the k-th line break; 0 and Len(text) + 1 close the text
        brk(k) == IF k = 0 THEN 0
                  ELSE IF k > Cardinality(nl) THEN Len(text) + 1
                       ELSE CHOOSE i \in nl : Cardinality({j \in nl : j < i}) = k - 1
    IN [k \in 1..(Cardinality(nl) + 1) |-> SubSeq(text, brk(k - 1) + 1, brk(k) - 1)]

\* the lines of _extract_from_text: none when the page has no text
TextLines(text) == IF text = "" THEN <<>> ELSE SplitLines(text)

\* the records of the full batches a user can hand back for reconciliation
LedgerRecords ==
    {TableRowRecords(RowAccepted)[1], TableRowRecords(RowOverLimit)[1],
     [TableRowRecords(RowInsufficient)[1] EXCEPT !.cheque_number = "111111"]}

MaxPairs == 3

\* an amount cell that holds text
TextCell(s) == [text |-> s]

\* a full batch as generated, one with its last row lost, one with a row of
\* another transaction code in front, one with a blank description, one
\* with amounts typed as text, one under other column titles, one with the
\* rows of the two codes in turn
LedgerPool ==
    LET full == {generate_excel_batch(d, "9313102000", "255") :
                   d \in SeqsUpTo(LedgerRecords, MaxPairs)}
        cut(b) == [b EXCEPT !.rows = SubSeq(b.rows, 1, Len(b.rows) - 1)]
        odd(b) == [b EXCEPT !.rows = <<[b.rows[1] EXCEPT !.TRANCODE = ""]>> \o b.rows]
        blank(b) == [b EXCEPT !.rows[1].DESC2 = " "]
        typed(b) == [b EXCEPT !.rows[1].AMOUNT = TextCell("1500.50"),
                              !.rows[2].LCYAMOUNT = TextCell("-1500.5")]
        titled(b) == [b EXCEPT !.header = <<"Branch", "Account", "Code", "Amount",
                                            "Lcy", "Desc 1", "Desc 2">>]
        turned(b) == [b EXCEPT !.rows = <<b.rows[1], b.rows[3], b.rows[2], b.rows[4]>>]
    IN full \cup {cut(b) : b \in {f \in full : f.rows # <<>>}}
            \cup {odd(b) : b \in {f \in full : Len(f.rows) = 2}}
            \cup {blank(b) : b \in {f \in full : Len(f.rows) = 2}}
            \cup {typed(b) : b \in {f \in full : Len(f.rows) = 2}}
            \cup {titled(b) : b \in {f \in full : Len(f.rows) = 2}}
            \cup {turned(b) : b \in {f \in full : Len(f.rows) = 4}}

\* the pages of the document are known, not taken as they come
Known == pdf # AnyPdf
Page == pdf[page_num + 1]
Table == Page.tables[table_idx + 1]

\* a mode test that sends every page to text mode
NeverTables(tables) == FALSE

\* if tables:
HasTables(tables) == tables # <<>>

\* a list that starts from what the name held before
KeptRecords(previous) == previous

\* extracted_records = []
FreshRecords(previous) == <<>>

\* a view saves the upload and calls extract_pdf_data
ReceiveRequest ==
    /\ pc = "idle"
    /\ \E v \in Views : view' = v
    /\ \E d \in uploads : pdf' = d
    /\ pc' = "pages"
    /\ extracted_records' = FreshRecords(extracted_records)
    /\ temp_pdf_path' = PdfPath
    /\ temp_xls_path' = IF view' = "generate_final_batch" THEN XlsPath ELSE None
    /\ files' = files \cup ({temp_pdf_path', temp_xls_path'} \ {None})
    /\ UNCHANGED <<uploads, extractVars, finalVars, outVars, log, runs,
                   callVars, output_path, remove_failed>>

\* tables = page.extract_tables() is not empty: _extract_from_table(tables)
PageWithTables ==
    /\ pc = "pages"
    /\ IF Known THEN page_num < Len(pdf) /\ HasTables(Page.tables)
       ELSE page_num < MaxPages
    /\ table_idx' = 0
    /\ row_idx' = 0
    /\ page_records' = <<>>
    /\ pc' = "rows"
    /\ UNCHANGED <<view, uploads, pdf, page_num, row, lines, rows_read,
                   extracted_records, finalVars, outVars, log, runs,
                   callVars,
                   fileVars>>

\* for row_idx, row in enumerate(table): one pass of the loop body
TableRow ==
    /\ pc = "rows"
    /\ IF Known THEN row_idx < Len(Table) ELSE rows_read < MaxRows
    /\ \E r \in IF Known THEN {Table[row_idx + 1]} ELSE RowPool :
          /\ row' = r
          /\ page_records' = IF RowRaises(r) THEN OnRowException(page_records)
                             ELSE page_records \o TableRowRecords(r)
    /\ row_idx' = row_idx + 1
    /\ rows_read' = rows_read + 1
    /\ UNCHANGED <<pc, view, uploads, pdf, page_num, table_idx, lines,
                   extracted_records, finalVars, outVars, log, runs,
                   callVars,
                   fileVars>>

\* for table_idx, table in enumerate(tables): the table is done, one follows
NextTable ==
    /\ pc = "rows"
    /\ IF Known THEN row_idx = Len(Table) /\ table_idx + 1 < Len(Page.tables)
       ELSE table_idx + 1 < MaxTables
    /\ table_idx' = table_idx + 1
    /\ row_idx' = 0
    /\ row' = <<>>
    /\ UNCHANGED <<pc, view, uploads, pdf, page_num, lines, rows_read,
                   page_records, extracted_records, finalVars, outVars,
                   log, runs, callVars,
                   fileVars>>

\* no tables: _extract_from_text(page); no text gives no lines
PageWithText ==
    /\ pc = "pages"
    /\ IF Known
       THEN /\ page_num < Len(pdf)
            /\ ~ HasTables(Page.tables)
            /\ lines' = TextLines(Page.text)
            /\ rows_read' = rows_read + Len(TextLines(Page.text))
       ELSE /\ page_num < MaxPages
            /\ \E ls \in SeqsUpTo(LinePool, MaxRows - rows_read) :
                  /\ lines' = ls
                  /\ rows_read' = rows_read + Len(ls)
    /\ row_idx' = 0
    /\ page_records' = <<>>
    /\ pc' = "lines"
    /\ UNCHANGED <<view, uploads, pdf, page_num, table_idx, row,
                   extracted_records, finalVars, outVars, log, runs,
                   callVars,
                   fileVars>>

\* for idx, line in enumerate(lines): one pass of the loop body
TextLine ==
    /\ pc = "lines"
    /\ row_idx < Len(lines)
    /\ page_records' = IF LineRaises(row_idx, lines)
                       THEN OnLineException(page_records)
                       ELSE page_records \o TextLineRecords(row_idx, lines)
    /\ row_idx' = row_idx + 1
    /\ UNCHANGED <<pc, view, uploads, pdf, page_num, table_idx, row, lines,
                   rows_read, extracted_records, finalVars, outVars, log,
                   runs, callVars,
                   fileVars>>

\* the last table, or the last line, is done:
\* extracted_records.extend(page_records)
EndPage ==
    /\ \/ /\ pc = "rows"
          /\ Known => row_idx = Len(Table) /\ table_idx + 1 = Len(Page.tables)
       \/ pc = "lines" /\ row_idx = Len(lines)
    /\ extracted_records' = extracted_records \o page_records
    /\ page_num' = page_num + 1
    /\ pc' = "pages"
    /\ table_idx' = 0
    /\ row_idx' = 0
    /\ row' = <<>>
    /\ lines' = <<>>
    /\ page_records' = <<>>
    /\ UNCHANGED <<view, uploads, pdf, rows_read, finalVars, outVars, log,
                   runs, callVars,
                   fileVars>>

\* the last page is done: return extracted_records
EndExtract ==
    /\ pc = "pages"
    /\ Known => page_num = Len(pdf)
    /\ pc' = "extracted"
    /\ page_num' = 0
    /\ rows_read' = 0
    /\ log' = IF Known
              THEN Append(log, [pdf |-> pdf, records |-> extracted_records])
              ELSE log
    /\ UNCHANGED <<view, uploads, pdf, table_idx, row_idx, row, lines,
                   page_records, extracted_records, finalVars, outVars, runs,
                   callVars,
                   fileVars>>

(***************************************************************************)
(* The views, from the return of extract_pdf_data to the response.  The    *)
(* form fields and the uploaded workbook are inputs of the request that    *)
(* nothing changes; they are drawn where the view ends.                    *)
(***************************************************************************)
\* generate_batch after extraction
GenerateBatch ==
    /\ pc = "extracted"
    /\ view \in {"generate_batch:full", "generate_batch:accepted"}
    /\ \E ca \in ClearingAccounts, cb \in ClearingBranches :
          /\ form' = [form EXCEPT !.clearing_account = ca, !.clearing_branch = cb]
          /\ IF extracted_records = <<>>
             THEN /\ response' = Error(400, "No data extracted from PDF")
                  /\ data' = <<>>
                  /\ worksheet' = NoSheet
             ELSE LET d == IF view = "generate_batch:accepted"
                           THEN filter_accepted_cheques(extracted_records)
                           ELSE extracted_records
                  IN /\ data' = d
                     /\ IF d = <<>>
                        THEN /\ response' = Error(400,
                                  "No accepted cheques found in the PDF. Please check the reason column.")
                             /\ worksheet' = NoSheet
                        ELSE /\ worksheet' = generate_excel_batch(d, ca, cb)
                             /\ response' = File(IF view = "generate_batch:accepted"
                                                 THEN "ecc_batch_accepted.xls"
                                                 ELSE "ecc_batch.xls")
    /\ IF response'.status = 200
       THEN output_path' = OutPath /\ files' = files \cup {OutPath}
       ELSE UNCHANGED <<output_path, files>>
    /\ pc' = "finally"
    /\ UNCHANGED <<view, uploads, pdf, extractVars, extracted_records, finalVars,
                   log, runs, callVars, temp_pdf_path, temp_xls_path,
                   remove_failed>>

\* generate_commission_batch after extraction (the message of the
\* no-eligible error carries the threshold; it is left out here)
GenerateCommissionBatch ==
    /\ pc = "extracted"
    /\ view = "generate_commission_batch"
    /\ \E acc \in CommissionAccounts, cb \in ClearingBranches,
          amt \in CommissionAmounts, th \in AmountThresholds :
          /\ form' = [form EXCEPT !.commission_account = acc,
                                  !.clearing_branch = cb,
                                  !.commission_amount = amt,
                                  !.amount_threshold = th]
          /\ IF extracted_records = <<>>
             THEN /\ response' = Error(400, "No data extracted from PDF")
                  /\ data' = <<>>
                  /\ worksheet' = NoSheet
             ELSE LET eligible == CommissionEligible(extracted_records, th)
                  IN /\ data' = eligible
                     /\ IF eligible = <<>>
                        THEN /\ response' = Error(400,
                                  "No ACCEPTED cheques with amount greater than threshold found.")
                             /\ worksheet' = NoSheet
                        ELSE /\ worksheet' = CommissionSheet(eligible, acc, amt, cb)
                             /\ response' = File("comm_batch.xls")
    /\ IF response'.status = 200
       THEN output_path' = OutPath /\ files' = files \cup {OutPath}
       ELSE UNCHANGED <<output_path, files>>
    /\ pc' = "finally"
    /\ UNCHANGED <<view, uploads, pdf, extractVars, extracted_records, finalVars,
                   log, runs, callVars, temp_pdf_path, temp_xls_path,
                   remove_failed>>

\* the row with description 2 cut to the cheque number
FinalRowCut(r) == [r EXCEPT !.DESC2 = LastToken(@)]

\* float(val) of an amount cell: a number cell is a float already, a text
\* cell is parsed
FloatOfCell(val) == IF "text" \in DOMAIN val THEN Float(val.text) ELSE val

\* float(val) of the two amount columns and the other cells as read
FinalRow(r) ==
    [r EXCEPT !.AMOUNT = FloatOfCell(@), !.LCYAMOUNT = FloatOfCell(@)]

\* generate_final_batch after extraction
GenerateFinalBatch ==
    /\ pc = "extracted"
    /\ view = "generate_final_batch"
    /\ \E xls \in LedgerPool :
          LET accepted == AcceptedChequeNumbers(extracted_records)
              r555 == RowsWithCode(xls.rows, "555")
              r055 == RowsWithCode(xls.rows, "055")
              keep == KeptIndices(r555, accepted)
              k555 == PickRows(r555, keep, 1)
              k055 == PickRows(r055, keep, 1)
          IN /\ xls_file' = xls
             /\ IF extracted_records = <<>>
                THEN /\ response' = Error(400, "No data extracted from PDF")
                     /\ accepted_cheque_numbers' = {}
                     /\ UNCHANGED <<rows_555, rows_055, kept_555, kept_055, worksheet>>
                ELSE /\ accepted_cheque_numbers' = accepted
                     /\ IF accepted = {}
                        THEN /\ response' = Error(400, "No ACCEPTED cheques found in the PDF.")
                             /\ UNCHANGED <<rows_555, rows_055, kept_555, kept_055,
                                            worksheet>>
                        ELSE /\ rows_555' = r555
                             /\ rows_055' = r055
                             /\ IF StructureError(r555, r055)
                                THEN /\ response' = Error(400, "XLS structure error")
                                     /\ UNCHANGED <<kept_555, kept_055, worksheet>>
                                ELSE /\ kept_555' = k555
                                     /\ kept_055' = k055
                                     /\ IF k555 = <<>>
                                        THEN /\ response' = Error(400,
                                                  "No matching ACCEPTED cheques found between PDF and XLS.")
                                             /\ UNCHANGED worksheet
                                        ELSE /\ worksheet' =
                                                  [header |-> xls.header,
                                                   rows   |-> [i \in 1..Len(k555) |-> FinalRow(k555[i])]
                                                              \o [i \in 1..Len(k055) |-> FinalRow(k055[i])]]
                                             /\ response' = File("final_batch.xls")
    /\ IF response'.status = 200
       THEN output_path' = OutPath /\ files' = files \cup {OutPath}
       ELSE UNCHANGED <<output_path, files>>
    /\ pc' = "finally"
    /\ UNCHANGED <<view, uploads, pdf, extractVars, extracted_records, form, data,
                   log, runs, callVars, temp_pdf_path, temp_xls_path,
                   remove_failed>>

\* the paths the finally block of the view hands to _safe_remove
FinallyPaths ==
    IF view = "generate_final_batch"
    THEN <<temp_pdf_path, temp_xls_path, output_path>>
    ELSE <<temp_pdf_path, output_path>>

\* the files left by _safe_remove(path) when os.remove does not raise: the
\* file goes if path is bound and the file exists
_safe_remove(path, fs) == IF path # None /\ path \in fs THEN fs \ {path} ELSE fs

RECURSIVE RemoveAll(_, _)
RemoveAll(paths, fs) ==
    IF paths = <<>> THEN fs ELSE RemoveAll(Tail(paths), _safe_remove(Head(paths), fs))

\* the finally block, then the return of the response
Finally ==
    /\ pc = "finally"
    /\ files' = RemoveAll(FinallyPaths, files)
    /\ remove_failed' = {}
    /\ pc' = "done"
    /\ UNCHANGED <<view, uploads, pdf, extractVars, extracted_records, finalVars,
                   outVars, log, runs, callVars, temp_pdf_path, temp_xls_path,
                   output_path>>

Next ==
    \/ Finally
    \/ ReceiveRequest
    \/ PageWithTables
    \/ TableRow
    \/ NextTable
    \/ PageWithText
    \/ TextLine
    \/ EndPage
    \/ EndExtract
    \/ GenerateBatch
    \/ GenerateCommissionBatch
    \/ GenerateFinalBatch

Spec == Init /\ [][Next]_vars

\* the response is sent: the names of the view are gone, those of
\* extract_pdf_data stay until its statements bind them again
NextRequest ==
    /\ pc = "done"
    /\ runs + 1 < MaxRuns
    /\ runs' = runs + 1
    /\ pc' = "idle"
    /\ view' = ""
    /\ form' = DefaultForm
    /\ xls_file' = NoSheet
    /\ data' = <<>>
    /\ accepted_cheque_numbers' = {}
    /\ rows_555' = <<>>
    /\ rows_055' = <<>>
    /\ kept_555' = <<>>
    /\ kept_055' = <<>>
    /\ worksheet' = NoSheet
    /\ response' = NoResponse
    /\ temp_pdf_path' = None
    /\ temp_xls_path' = None
    /\ output_path' = None
    /\ UNCHANGED <<uploads, pdf, extractVars, extracted_records, log, callVars,
                   files, remove_failed>>

\* requests, one after the other, over known documents
ReplayInit ==
    /\ RequestInit
    /\ uploads = Documents
    /\ fn = ""
    /\ args = NoArgs
    /\ ret = <<>>

ReplayNext == Next \/ NextRequest

ReplaySpec == ReplayInit /\ [][ReplayNext]_vars
(***************************************************************************)
(* The except path of the three views.  The calls that read or write a     *)
(* file can raise; the view then answers 500 and runs its finally block.   *)
(***************************************************************************)
ServerError(v) ==
    Error(500, IF v \in {"generate_batch:full", "generate_batch:accepted"}
               THEN "Error processing file" ELSE "Error")

\* a write of the upload raises inside `with NamedTemporaryFile(...)`: the
\* file is on disk and the statement that binds its name is not reached
SaveUploadRaises ==
    /\ pc = "idle"
    /\ \E v \in Views : view' = v
    /\ \E failing \in (IF view' = "generate_final_batch" THEN {PdfPath, XlsPath}
                       ELSE {PdfPath}) :
          /\ temp_pdf_path' = IF failing = PdfPath THEN None ELSE PdfPath
          /\ files' = files \cup (IF failing = PdfPath THEN {PdfPath}
                                  ELSE {PdfPath, XlsPath})
    /\ temp_xls_path' = None
    /\ response' = ServerError(view')
    /\ pc' = "finally"
    /\ UNCHANGED <<uploads, pdf, extractVars, extracted_records, finalVars, form,
                   data, worksheet, log, runs, callVars, output_path,
                   remove_failed>>

\* pdfplumber.open, extract_tables or extract_text raises; extract_pdf_data
\* prints and raises again
ExtractRaises ==
    /\ pc = "pages"
    /\ response' = ServerError(view)
    /\ pc' = "finally"
    /\ UNCHANGED <<view, uploads, pdf, extractVars, extracted_records, finalVars,
                   form, data, worksheet, log, runs, callVars, fileVars>>

\* xlrd.open_workbook raises on the saved workbook
OpenWorkbookRaises ==
    /\ pc = "extracted"
    /\ view = "generate_final_batch"
    /\ extracted_records # <<>>
    /\ AcceptedChequeNumbers(extracted_records) # {}
    /\ accepted_cheque_numbers' = AcceptedChequeNumbers(extracted_records)
    /\ response' = ServerError(view)
    /\ pc' = "finally"
    /\ UNCHANGED <<view, uploads, pdf, extractVars, extracted_records, xls_file,
                   rows_555, rows_055, kept_555, kept_055, form, data, worksheet,
                   log, runs, callVars, fileVars>>

\* workbook.save raises in generate_excel_batch, after it made the temporary
\* file and before it returns the name to generate_batch
GenerateBatchSaveRaises ==
    /\ pc = "extracted"
    /\ view \in {"generate_batch:full", "generate_batch:accepted"}
    /\ LET d == IF view = "generate_batch:accepted"
                THEN filter_accepted_cheques(extracted_records)
                ELSE extracted_records
       IN d # <<>> /\ data' = d
    /\ files' = files \cup {OutPath}
    /\ response' = ServerError(view)
    /\ pc' = "finally"
    /\ UNCHANGED <<view, uploads, pdf, extractVars, extracted_records, finalVars,
                   form, worksheet, log, runs, callVars, temp_pdf_path,
                   temp_xls_path, output_path, remove_failed>>

\* wb.save raises in generate_commission_batch, which has bound output_path
CommissionSaveRaises ==
    /\ pc = "extracted"
    /\ view = "generate_commission_batch"
    /\ \E th \in AmountThresholds :
          /\ CommissionEligible(extracted_records, th) # <<>>
          /\ form' = [form EXCEPT !.amount_threshold = th]
          /\ data' = CommissionEligible(extracted_records, th)
    /\ output_path' = OutPath
    /\ files' = files \cup {OutPath}
    /\ response' = ServerError(view)
    /\ pc' = "finally"
    /\ UNCHANGED <<view, uploads, pdf, extractVars, extracted_records, finalVars,
                   worksheet, log, runs, callVars, temp_pdf_path, temp_xls_path,
                   remove_failed>>

\* the data rows generate_final_batch writes for extracted_data and the
\* sheet xls; none on the paths that return an error
final_batch_rows(extracted_data, xls) ==
    LET accepted == AcceptedChequeNumbers(extracted_data)
        r555 == RowsWithCode(xls.rows, "555")
        r055 == RowsWithCode(xls.rows, "055")
        keep == KeptIndices(r555, accepted)
        k555 == PickRows(r555, keep, 1)
        k055 == PickRows(r055, keep, 1)
    IN IF extracted_data = <<>> \/ accepted = {} \/ StructureError(r555, r055)
       THEN <<>>
       ELSE [i \in 1..Len(k555) |-> FinalRow(k555[i])]
              \o [i \in 1..Len(k055) |-> FinalRow(k055[i])]

\* wb_out.save raises in generate_final_batch, which has bound output_path;
\* the uploaded ledger is the batch of the same report
FinalBatchSaveRaises ==
    /\ pc = "extracted"
    /\ view = "generate_final_batch"
    /\ AcceptedChequeNumbers(extracted_records) # {}
    /\ xls_file' = generate_excel_batch(extracted_records, "9313102000", "255")
    /\ accepted_cheque_numbers' = AcceptedChequeNumbers(extracted_records)
    /\ rows_555' = RowsWithCode(xls_file'.rows, "555")
    /\ rows_055' = RowsWithCode(xls_file'.rows, "055")
    /\ kept_555' = PickRows(rows_555', KeptIndices(rows_555', accepted_cheque_numbers'), 1)
    /\ kept_055' = PickRows(rows_055', KeptIndices(rows_555', accepted_cheque_numbers'), 1)
    /\ kept_555' # <<>>
    /\ output_path' = OutPath
    /\ files' = files \cup {OutPath}
    /\ response' = ServerError(view)
    /\ pc' = "finally"
    /\ UNCHANGED <<view, uploads, pdf, extractVars, extracted_records, form, data,
                   worksheet, log, runs, callVars, temp_pdf_path, temp_xls_path,
                   remove_failed>>

\* the finally block when os.remove raises on some of the files: _safe_remove
\* prints and goes on
FinallyRemoveFails ==
    /\ pc = "finally"
    /\ \E bad \in SUBSET (files \ RemoveAll(FinallyPaths, files)) :
          /\ bad # {}
          /\ files' = RemoveAll(FinallyPaths, files) \cup bad
          /\ remove_failed' = bad
    /\ pc' = "done"
    /\ UNCHANGED <<view, uploads, pdf, extractVars, extracted_records, finalVars,
                   outVars, log, runs, callVars, temp_pdf_path, temp_xls_path,
                   output_path>>

CleanupNext ==
    \/ Next
    \/ SaveUploadRaises
    \/ ExtractRaises
    \/ OpenWorkbookRaises
    \/ GenerateBatchSaveRaises
    \/ CommissionSaveRaises
    \/ FinalBatchSaveRaises
    \/ FinallyRemoveFails

CleanupSpec == Init /\ [][CleanupNext]_vars

(***************************************************************************)
(* Summary statistics of display_data_table and process_upload             *)
(***************************************************************************)
\* amount + amount of two amounts that are not negative
Plus(a, b) ==
    LET c == a.c + b.c
        u == a.u + b.u + (c \div 100)
    IN IF u >= AmountCap THEN [u |-> AmountCap, c |-> 0] ELSE [u |-> u, c |-> c % 100]

\* a chain that tests INSUFFICIENT / FUNDS before ACCEPTED
StatsClassFundsFirst(reason) ==
    IF Contains(reason, "INSUFFICIENT") \/ Contains(reason, "FUNDS") THEN "insufficient_funds"
    ELSE IF Contains(reason, "ACCEPTED") THEN "accepted"
    ELSE IF reason # "" THEN "other_reasons"
    ELSE ""

\* the if / elif chain of the loop; "" when no branch is taken
StatsClass(reason) ==
    IF Contains(reason, "ACCEPTED") THEN "accepted"
    ELSE IF Contains(reason, "INSUFFICIENT") \/ Contains(reason, "FUNDS")
         THEN "insufficient_funds"
    ELSE IF reason # "" THEN "other_reasons"
    ELSE ""

NoStats ==
    [total_records |-> 0, total_amount |-> NoAmount,
     accepted_count |-> 0, accepted_amount |-> NoAmount,
     insufficient_funds_count |-> 0, insufficient_funds_amount |-> NoAmount,
     other_reasons_count |-> 0, other_reasons_amount |-> NoAmount,
     no_reason_count |-> 0]

\* one pass of `for r in extracted_data`
StatsStep(st, r) ==
    LET reason == Strip(Upper(IF "reason" \in DOMAIN r THEN r.reason ELSE ""))
        amount == r.cheque_amount
        class  == StatsClass(reason)
        t      == [st EXCEPT !.total_amount = Plus(@, amount)]
    IN CASE class = "accepted" ->
              [t EXCEPT !.accepted_count = @ + 1, !.accepted_amount = Plus(@, amount)]
         [] class = "insufficient_funds" ->
              [t EXCEPT !.insufficient_funds_count = @ + 1,
                        !.insufficient_funds_amount = Plus(@, amount)]
         [] class = "other_reasons" ->
              [t EXCEPT !.other_reasons_count = @ + 1,
                        !.other_reasons_amount = Plus(@, amount)]
         [] OTHER -> t

RECURSIVE StatsLoop(_, _)
StatsLoop(st, rs) == IF rs = <<>> THEN st ELSE StatsLoop(StatsStep(st, Head(rs)), Tail(rs))

\* total_records, the loop, then no_reason_count as the remainder
SummaryStats(extracted_data) ==
    LET st == StatsLoop([NoStats EXCEPT !.total_records = Len(extracted_data)],
                        extracted_data)
    IN [st EXCEPT !.no_reason_count =
                     st.total_records - (st.accepted_count
                                           + st.insufficient_funds_count
                                           + st.other_reasons_count)]

(***************************************************************************)
(* The helpers called on their own, each on one argument                   *)
(***************************************************************************)
\* a report row of 15 cells from its first cell, its primary columns and
\* its last cell
ReportRow(first, cheque, branch, account, bank, pay_account, amount, last) ==
    <<first, "", "", "", "", "", cheque, branch, "", account, "", bank,
      pay_account, amount, last>>

\* the row with cells in the other columns that pass a field's test
Crowded(r) ==
    [r EXCEPT ![2] = "654321", ![3] = "99887766554433221", ![4] = "9,999.99",
              ![5] = "101", ![6] = "NABIL", ![9] = "1122334455",
              ![11] = "STOP PAYMENT"]

PrimaryRows ==
    LET plain == {ReportRow("1", c, "255", "98765432109876", b, "12345678", a, l) :
                    c \in {"1234567", " 222222 "},
                    b \in {"CITIZE", "Kuma", "NABIL"},
                    a \in {"50,000.00", "1,500.50", "75000.00"},
                    l \in {"INSUFFICIENT FUNDS", "Accepted", ""}}
    IN plain \cup {Crowded(r) : r \in plain}

FirstCells ==
    {"1", "", "SN", " sn ", "s.n.", "S.N", "Session", "SR", "No", "SERIAL",
     "DATE", "SEQUENCE", "SNO", "S N", "GRAND TOTAL", "Total: 5",
     "*** End of Report ***", "END OF", "TOT AL"}

RowNine == RowShort \o <<"">>

AdmissionRows ==
    {ReportRow(f, "222222", "255", "001234567890123", "KUMA", "0987654321",
               "250,000.00", "ACCEPTED") : f \in FirstCells}
      \cup {RowShort, RowNine}

\* a digit string of n characters that names the cell it stands in
AccountAt(i, n) ==
    IF n = 0 THEN "" ELSE NatText(10 + i) \o SubSeq("000000000000000", 1, n - 2)

AccountRows ==
    {[ReportRow("1", "1234567", "255", c9, "EXCEL", "12345678", "50,000.00",
                "ACCEPTED")
        EXCEPT ![3] = AccountAt(2, n2), ![9] = AccountAt(8, n8),
               ![11] = AccountAt(10, n10), ![15] = AccountAt(14, n14)] :
       c9 \in {"001234567890123", " 0012345678901 ", "12345", ""},
       n2 \in {0, 12, 13}, n8 \in {0, 12, 13}, n10 \in {0, 12, 13},
       n14 \in {0, 12, 13}}

AmountRows ==
    {ReportRow("1", "1234567", "255", "98765432109876", "EXCEL", "12345678", a,
               "ACCEPTED") :
       a \in {"5000", "100,000,000.00", "99,999,999.99", "0.00", "1.2.3",
              "-5.00", "12", "abc", ""}}
      \cup {<<"1", "", a1, "", "", "", c, "255", "", "98765432109876", "", a2,
              "ACCEPTED">> :
              c \in {"1234567", "1234567890"},
              a1 \in {"", "50,000.00"}, a2 \in {"", "2,500.75"}}

\* rows for the reason: what column 13 holds, and what the cells after and
\* before it hold
ReasonRows ==
    {[ReportRow("1", "1234567", "255", "98765432109876", "EXCEL", "12345678", p,
                l) EXCEPT ![11] = m] :
       p \in {"50,000.00", "", "ab", " ab ", "Refer to Drawer", "N/A", "1.2.3", "12"},
       l \in {"", "Accepted", "CLG", "Account", "account closed", "ab cd",
              "12 34", "OK", "1,000", "   ", "Endorsement", "UNPAID"},
       m \in {"", "Signature Differs", "BANK"}}

HelperRows == RowPool \cup PrimaryRows \cup AdmissionRows \cup AccountRows
                \cup AmountRows \cup ReasonRows

\* records as a caller of filter_accepted_cheques can hold them
HelperRecords ==
    {[cheque_number |-> "111111", reason |-> "ACCEPTED"],
     [cheque_number |-> "222222", reason |-> "INSUFFICIENT FUNDS"],
     [cheque_number |-> "333333", reason |-> ""],
     [cheque_number |-> "444444"],
     [cheque_number |-> "555555", reason |-> " Accepted "],
     [cheque_number |-> "666666", reason |-> "not accepted by drawer"],
     [cheque_number |-> "777777", reason |-> "ACCEPT"]}

MaxRecords == 3

\* extracted records as the two views hold them, by their reason
DisplayRecords ==
    {Record("001234567890123", [u |-> 1500, c |-> 50], <<"KUMARI", "0987654321">>,
            "111111", "255", reason) :
       reason \in {"ACCEPTED", "INSUFFICIENT FUNDS", "", "Funds accepted",
                   "REFER TO DRAWER", "insufficient", "FUNDS"}}

LineTwoAmounts ==
    "9 11 22 1234567 255 98765432109876 EXCEL 12345678 50,000.00 4500 ACCEPTED"
LineBareAmount ==
    "9 11 22 1234567 255 98765432109876 EXCEL 12345678 4500 1.2.3 ACCEPTED"

HelperLines == LinePool \cup {LineInsufficient, LineWrapped, LineTwoAmounts,
                              LineBareAmount}

\* extracted records of two cheque numbers, accepted and returned
BatchRecords ==
    {Record("001234567890123", [u |-> 1500, c |-> 50], <<"KUMARI", "0987654321">>,
            number, "255", reason) :
       number \in {"111111", "222222"},
       reason \in {"ACCEPTED", "INSUFFICIENT FUNDS"}}

BatchArgs(d) == [NoArgs EXCEPT !.kind = "batch", !.data = d]
StatsArgs(d) == [NoArgs EXCEPT !.kind = "stats", !.data = d]
RowArgs(r) == [NoArgs EXCEPT !.kind = "row", !.row = r]
DataArgs(d) == [NoArgs EXCEPT !.kind = "data", !.data = d]
LineArgs(l) == [NoArgs EXCEPT !.kind = "line", !.lines = <<l>>]

HelperArgs ==
    {RowArgs(r) : r \in HelperRows}
      \cup {DataArgs(d) : d \in SeqsUpTo(HelperRecords, MaxRecords)}
      \cup {LineArgs(l) : l \in HelperLines}
      \cup {StatsArgs(d) : d \in SeqsUpTo(DisplayRecords, MaxRecords) \ {<<>>}}
      \cup {BatchArgs(d) : d \in SeqsUpTo(BatchRecords, MaxRecords)}

HelperInit ==
    /\ RequestInit
    /\ uploads = {AnyPdf}
    /\ fn = ""
    /\ args \in HelperArgs
    /\ ret = <<>>

requestVars == <<pc, view, uploads, pdf, extractVars, extracted_records,
                 finalVars, outVars, log, runs, fileVars>>

CallFilterAccepted ==
    /\ fn = "" /\ args.kind = "data"
    /\ fn' = "filter_accepted_cheques"
    /\ ret' = filter_accepted_cheques(args.data)
    /\ UNCHANGED <<args, requestVars>>

\* one pass of the row loop of _extract_from_table, from an empty records
CallTableRow ==
    /\ fn = "" /\ args.kind = "row"
    /\ fn' = "_extract_from_table"
    /\ ret' = TableRowRecords(args.row)
    /\ UNCHANGED <<args, requestVars>>

CallExtractBfdAccount ==
    /\ fn = "" /\ args.kind = "row"
    /\ fn' = "_extract_bfd_account"
    /\ ret' = _extract_bfd_account(args.row)
    /\ UNCHANGED <<args, requestVars>>

\* the amount, and whether the return of the primary column gave it
CallExtractAmount ==
    /\ fn = "" /\ args.kind = "row"
    /\ fn' = "_extract_amount"
    /\ ret' = [amount  |-> _extract_amount(args.row),
               primary |-> PrimaryAmount(args.row) # NoAmount]
    /\ UNCHANGED <<args, requestVars>>

CallExtractAmountFromParts ==
    /\ fn = "" /\ args.kind = "line"
    /\ fn' = "_extract_amount_from_parts"
    /\ ret' = _extract_amount_from_parts(Split(args.lines[1]))
    /\ UNCHANGED <<args, requestVars>>

CallExtractReason ==
    /\ fn = "" /\ args.kind = "row"
    /\ fn' = "_extract_reason"
    /\ ret' = _extract_reason(args.row)
    /\ UNCHANGED <<args, requestVars>>

\* the statistics block of display_data_table and of process_upload, which
\* both return before it when nothing was extracted
CallSummaryStats ==
    /\ fn = "" /\ args.kind = "stats"
    /\ fn' = "display_data_table"
    /\ ret' = SummaryStats(args.data)
    /\ UNCHANGED <<args, requestVars>>

\* the data rows of the batch generate_batch writes; none when there is no
\* record to write
batch_rows(records, clearing_account, clearing_branch) ==
    IF records = <<>> THEN <<>>
    ELSE generate_excel_batch(records, clearing_account, clearing_branch).rows

\* the full batch of a list is given back with the document it came from,
\* and the accepted batch is generated from the same list
CallFinalBatchOnOwnBatch ==
    /\ fn = "" /\ args.kind = "batch"
    /\ fn' = "generate_final_batch"
    /\ ret' = [final    |-> final_batch_rows(args.data,
                               generate_excel_batch(args.data, "9313102000", "255")),
               accepted |-> batch_rows(filter_accepted_cheques(args.data),
                                       "9313102000", "255")]
    /\ UNCHANGED <<args, requestVars>>

HelperNext ==
    \/ CallFinalBatchOnOwnBatch
    \/ CallSummaryStats
    \/ CallExtractReason
    \/ CallFilterAccepted
    \/ CallTableRow
    \/ CallExtractBfdAccount
    \/ CallExtractAmount
    \/ CallExtractAmountFromParts

HelperSpec == HelperInit /\ [][HelperNext]_vars

(***************************************************************************)
(* Properties.  They are stated on the text and the numbers themselves,    *)
(* apart from the operators of the model.                                  *)
(***************************************************************************)
AllDigits(s) == \A i \in 1..Len(s) : \E d \in 0..9 : SubSeq(s, i, i) = DigitText[d]

\* the reason, upper-cased, contains ACCEPTED
MentionsAccepted(record) ==
    \E i \in 1..(Len(record.reason) - 7) :
        Upper(SubSeq(record.reason, i, i + 7)) = "ACCEPTED"

Done(v) == pc = "done" /\ view \in v
BatchViews == {"generate_batch:full", "generate_batch:accepted"}

WellFormed(record) ==
    /\ AllDigits(record.bfd_account)
    /\ Len(record.bfd_account) \in 12..17
    /\ AllDigits(record.cheque_number)
    /\ Len(record.cheque_number) \in 6..10
    /\ record.cheque_amount.u >= 0 /\ record.cheque_amount.c >= 0
    /\ record.cheque_amount.u + record.cheque_amount.c > 0
    /\ record.cheque_amount.u < 100000000

\* C1: every extracted record, from a table or from text, has a bfd_account
\* of 12 to 17 digits, a cheque_number of 6 to 10 digits and a cheque_amount
\* strictly between 0 and 100,000,000, the primary amount column included
C1_RecordsWellFormed ==
    /\ \A i \in 1..Len(page_records) : WellFormed(page_records[i])
    /\ \A i \in 1..Len(extracted_records) : WellFormed(extracted_records[i])

\* the row or the line the step in progress handles, and its three
\* mandatory fields
TableStep == pc = "rows" /\ row_idx' = row_idx + 1
TextStep == pc = "lines" /\ row_idx' = row_idx + 1

AllThreeOfRow(r) ==
    /\ _extract_bfd_account(r) # ""
    /\ _extract_amount(r) # [u |-> 0, c |-> 0]
    /\ _extract_cheque_number(r) # ""

AllThreeOfLine(line) ==
    /\ _extract_bfd_account_from_parts(Split(line)) # ""
    /\ _extract_amount_from_parts(Split(line)) # [u |-> 0, c |-> 0]
    /\ _extract_cheque_number_from_parts(Split(line)) # ""

Grows(old, new) == Len(new) = Len(old) + 1 /\ SubSeq(new, 1, Len(old)) = old

\* C2: an admitted row or line adds a record only if the account, the amount
\* and the cheque number were all found; with one of them missing it adds
\* nothing, raises nothing, and the loop goes on to the following rows
C2_MandatoryGate ==
    [][ /\ TableStep /\ RowAdmitted(row') =>
          /\ page_records' # page_records => AllThreeOfRow(row')
          /\ AllThreeOfRow(row') =>
                /\ Grows(page_records, page_records')
                /\ page_records'[Len(page_records')].bfd_account = _extract_bfd_account(row')
          /\ ~ AllThreeOfRow(row') =>
                page_records' = page_records /\ pc' = "rows" /\ response' = NoResponse
        /\ TextStep /\ LineAdmitted(Split(lines[row_idx + 1])) =>
          /\ page_records' # page_records => AllThreeOfLine(lines[row_idx + 1])
          /\ AllThreeOfLine(lines[row_idx + 1]) => Grows(page_records, page_records')
          /\ ~ AllThreeOfLine(lines[row_idx + 1]) =>
                page_records' = page_records /\ pc' = "lines" /\ response' = NoResponse
      ]_vars

\* an admitted second row without one of the three left the first row's
\* record alone, and the loop is ready for a third row
C2_Witness ==
    /\ pc = "rows" /\ row_idx = 2 /\ Len(page_records) = 1
    /\ RowAdmitted(row) /\ ~ AllThreeOfRow(row)
    /\ rows_read < MaxRows
    /\ response = NoResponse

SumsToZero(a, b) == a.u + b.u = 0 /\ a.c + b.c = 0

\* C3: in the written full / accepted batch of N records, data rows i and
\* i + N come from record i (main code = its bfd_account, description 1 =
\* "CLG TFR " + its bfd_account) and their amounts are exact negatives
C3_Pairing ==
    Done(BatchViews) /\ response.status = 200 =>
        LET N == Len(data)
        IN /\ N > 0
           /\ Len(worksheet.rows) >= 2 * N
           /\ \A i \in 1..N :
                 /\ worksheet.rows[i].MAINCODE = data[i].bfd_account
                 /\ worksheet.rows[i + N].DESC1 = "CLG TFR " \o data[i].bfd_account
                 /\ SumsToZero(worksheet.rows[i].AMOUNT, worksheet.rows[i + N].AMOUNT)
                 /\ SumsToZero(worksheet.rows[i].LCYAMOUNT, worksheet.rows[i + N].LCYAMOUNT)
                 /\ worksheet.rows[i].AMOUNT = data[i].cheque_amount

C3_Witness ==
    /\ Done(BatchViews) /\ response.status = 200
    /\ Len(data) = 3
    /\ data[1].bfd_account # data[2].bfd_account
    /\ data[2].bfd_account # data[3].bfd_account

\* the records of the list that a view's batch is made of
OverThreshold(record) ==
    \/ record.cheque_amount.u > form.amount_threshold
    \/ /\ record.cheque_amount.u = form.amount_threshold
       /\ record.cheque_amount.c > 0

EligibleCount ==
    Cardinality({i \in 1..Len(extracted_records) :
        CASE view = "generate_batch:full" -> TRUE
          [] view = "generate_batch:accepted" -> MentionsAccepted(extracted_records[i])
          [] view = "generate_commission_batch" -> OverThreshold(extracted_records[i])
          [] OTHER -> FALSE})

OfAccount(r) == {i \in 1..Len(data) : data[i].bfd_account = r.MAINCODE}
FirstThree(s) == SubSeq(s, 1, 3)

\* C5 as claimed: in every batch a row of an originating account carries
\* "055" and a row of the clearing or commission account carries "555"; in
\* the full / accepted batch the "055" row has the first 3 characters of
\* bfd_account as its branch code and +cheque_amount as its amount
C5_CodesAsClaimed ==
    Done(BatchViews \cup {"generate_commission_batch"}) =>
        \A k \in 1..Len(worksheet.rows) :
            LET r == worksheet.rows[k]
            IN /\ OfAccount(r) # {} => r.TRANCODE = "055"
               /\ r.MAINCODE \in {form.clearing_account, form.commission_account}
                     => r.TRANCODE = "555"
               /\ view \in BatchViews /\ r.TRANCODE = "055" =>
                     \E i \in OfAccount(r) :
                         /\ r.BRANCHCODE = FirstThree(data[i].bfd_account)
                         /\ r.AMOUNT = data[i].cheque_amount

\* C5, amended: in the full / accepted batch a row of an originating account
\* carries "555", with the first 3 characters of bfd_account as its branch
\* code and +cheque_amount as its amount, and a row of the clearing account
\* carries "055"; in the commission batch a row of an originating account
\* carries "055" and a row of the commission account carries "555"
C5_Codes ==
    /\ Done(BatchViews) =>
         \A k \in 1..Len(worksheet.rows) :
            LET r == worksheet.rows[k]
            IN /\ OfAccount(r) # {} =>
                     /\ r.TRANCODE = "555"
                     /\ \E i \in OfAccount(r) :
                           /\ r.BRANCHCODE = FirstThree(data[i].bfd_account)
                           /\ r.AMOUNT = data[i].cheque_amount
               /\ r.MAINCODE = form.clearing_account => r.TRANCODE = "055"
               /\ OfAccount(r) # {} \/ r.MAINCODE = form.clearing_account
    /\ Done({"generate_commission_batch"}) =>
         \A k \in 1..Len(worksheet.rows) :
            LET r == worksheet.rows[k]
            IN /\ OfAccount(r) # {} => r.TRANCODE = "055"
               /\ r.MAINCODE = form.commission_account => r.TRANCODE = "555"
               /\ OfAccount(r) # {} \/ r.MAINCODE = form.commission_account

C5_Witness ==
    /\ Done(BatchViews) /\ Len(worksheet.rows) = 4
    /\ worksheet.rows[1].TRANCODE = "555" /\ worksheet.rows[3].TRANCODE = "055"
    /\ form.clearing_branch # FirstThree(worksheet.rows[1].MAINCODE)

\* C6: the commission batch holds, for the N eligible records in order, N
\* "055" rows (main code the record's bfd_account, amount -commission_amount)
\* and then N "555" rows (main code the commission account, amount
\* +commission_amount), whatever the cheque amounts are
C6_CommissionRows ==
    Done({"generate_commission_batch"}) /\ response.status = 200 =>
        LET N == Len(data)
            fee == form.commission_amount
        IN /\ N > 0
           /\ Len(worksheet.rows) = 2 * N
           /\ \A i \in 1..N :
                 /\ worksheet.rows[i].TRANCODE = "055"
                 /\ worksheet.rows[i].MAINCODE = data[i].bfd_account
                 /\ worksheet.rows[i].AMOUNT = [u |-> 0 - fee.u, c |-> 0 - fee.c]
                 /\ worksheet.rows[i].LCYAMOUNT = worksheet.rows[i].AMOUNT
                 /\ worksheet.rows[i + N].TRANCODE = "555"
                 /\ worksheet.rows[i + N].MAINCODE = form.commission_account
                 /\ worksheet.rows[i + N].AMOUNT = fee
                 /\ worksheet.rows[i + N].LCYAMOUNT = fee
                 /\ worksheet.rows[i + N].DESC2 = data[i].bfd_account

\* one eligible record of 250000 with threshold 200000 and commission 15:
\* a -15.00 "055" row and a +15.00 "555" row
C6_Witness ==
    /\ Done({"generate_commission_batch"})
    /\ form.amount_threshold = 200000
    /\ form.commission_amount = [u |-> 15, c |-> 0]
    /\ Len(data) = 1 /\ data[1].cheque_amount = [u |-> 250000, c |-> 0]
    /\ Len(worksheet.rows) = 2
    /\ worksheet.rows[1].TRANCODE = "055"
    /\ worksheet.rows[1].AMOUNT = [u |-> -15, c |-> 0]
    /\ worksheet.rows[2].TRANCODE = "555"
    /\ worksheet.rows[2].AMOUNT = [u |-> 15, c |-> 0]

\* C7: every record with rows in the commission batch has a reason that
\* contains ACCEPTED and a cheque_amount above the threshold
C7_CommissionOnlyAccepted ==
    Done({"generate_commission_batch"}) =>
        \A k \in 1..Len(worksheet.rows) :
            \A i \in 1..Len(extracted_records) :
                extracted_records[i].bfd_account
                      \in {worksheet.rows[k].MAINCODE, worksheet.rows[k].DESC2}
                   => /\ MentionsAccepted(extracted_records[i])
                      /\ OverThreshold(extracted_records[i])

\* the last run of non-whitespace characters of s, "" when s has none
LastWord(s) ==
    LET nw == {i \in 1..Len(s) : SubSeq(s, i, i) \notin {" ", "\n", "\t"}}
    IN IF nw = {} THEN ""
       ELSE SubSeq(s, Min({i \in nw : \A j \in i..Max(nw) : j \in nw}), Max(nw))

\* the cheque numbers of the extracted records whose reason contains ACCEPTED
AcceptedSet ==
    {extracted_records[i].cheque_number :
        i \in {j \in 1..Len(extracted_records) : MentionsAccepted(extracted_records[j])}}

\* the sheet positions of the uploaded rows with one transaction code, and
\* the position of the i-th of them
Block(code) == {k \in 1..Len(xls_file.rows) : xls_file.rows[k].TRANCODE = code}
Nth(S, i) == CHOOSE k \in S : Cardinality({j \in S : j < k}) = i - 1
BlockRow(code, i) == xls_file.rows[Nth(Block(code), i)]

\* the indices of the originating-account block whose cheque number is accepted
Matching ==
    {i \in 1..Cardinality(Block("555")) :
        LastWord(BlockRow("555", i).DESC2) \in AcceptedSet}

Matched ==
    /\ Done({"generate_final_batch"})
    /\ AcceptedSet # {}
    /\ Cardinality(Block("555")) = Cardinality(Block("055"))

\* C8: reconciliation keeps pair i of the two blocks of the uploaded ledger
\* if and only if the last token of description 2 of row i of the
\* originating-account block is an accepted cheque number; accepted numbers
\* that are not in the ledger add nothing and raise nothing
C8_KeptPairs ==
    Matched =>
        LET K == Cardinality(Matching)
        IN /\ Len(kept_555) = K
           /\ Len(kept_055) = K
           /\ \A k \in 1..K :
                 /\ kept_555[k] = BlockRow("555", Nth(Matching, k))
                 /\ kept_055[k] = BlockRow("055", Nth(Matching, k))
           /\ K > 0 => /\ response = File("final_batch.xls")
                       /\ Len(worksheet.rows) = 2 * K

\* three pairs for cheques 111111, 222222, 333333 and the accepted set
\* {222222}: one pair is kept, the one of 222222
C8_Witness ==
    /\ Matched
    /\ AcceptedSet = {"222222"}
    /\ Len(rows_555) = 3
    /\ LastWord(rows_555[1].DESC2) = "111111"
    /\ LastWord(rows_555[2].DESC2) = "222222"
    /\ LastWord(rows_555[3].DESC2) = "333333"
    /\ Len(worksheet.rows) = 2
    /\ LastWord(worksheet.rows[1].DESC2) = "222222"
    /\ worksheet.rows[2] = rows_055[2]

Mismatch == Cardinality(Block("555")) # Cardinality(Block("055"))

\* C9 as claimed: a ledger with different numbers of "555" and "055" rows
\* ends reconciliation with the structural-mismatch error and no output
\* batch, for every document and every accepted set
C9_MismatchAlways ==
    Done({"generate_final_batch"}) /\ Mismatch =>
        response = Error(400, "XLS structure error") /\ worksheet = NoSheet

\* C9, amended: when the re-extracted document has at least one accepted
\* cheque, a ledger with different numbers of "555" and "055" rows ends
\* reconciliation with the structural-mismatch error and no output batch;
\* it is never reported as "no matches"
C9_MismatchFatal ==
    Done({"generate_final_batch"}) /\ AcceptedSet # {} /\ Mismatch =>
        response = Error(400, "XLS structure error") /\ worksheet = NoSheet

\* a mismatched ledger none of whose rows is an accepted cheque's
C9_Witness ==
    /\ Done({"generate_final_batch"}) /\ AcceptedSet # {} /\ Mismatch
    /\ \A k \in Block("555") : LastWord(xls_file.rows[k].DESC2) \notin AcceptedSet
    /\ response.body = "XLS structure error"

NoBatch(message) == response = Error(400, message) /\ worksheet = NoSheet

\* C10: with no usable record - nothing extracted, nothing accepted, nothing
\* above the threshold, no ledger pair matching - the request ends with that
\* condition's error and no batch is written
C10_EmptyIsAnError ==
    pc = "done" =>
        /\ extracted_records = <<>> => NoBatch("No data extracted from PDF")
        /\ extracted_records # <<>> /\ AcceptedSet = {} =>
              /\ view = "generate_batch:accepted" =>
                    NoBatch("No accepted cheques found in the PDF. Please check the reason column.")
              /\ view = "generate_final_batch" =>
                    NoBatch("No ACCEPTED cheques found in the PDF.")
        /\ /\ view = "generate_commission_batch"
           /\ extracted_records # <<>>
           /\ \A i \in 1..Len(extracted_records) : ~ OverThreshold(extracted_records[i])
           => NoBatch("No ACCEPTED cheques with amount greater than threshold found.")
        /\ Matched /\ Matching = {} =>
              NoBatch("No matching ACCEPTED cheques found between PDF and XLS.")

\* accepted cheques and a well-formed ledger of other cheques only
C10_Witness ==
    /\ Matched /\ Matching = {}
    /\ Len(rows_555) = 2
    /\ response.body = "No matching ACCEPTED cheques found between PDF and XLS."

(***************************************************************************)
(* Properties of the runs over known documents                             *)
(***************************************************************************)
RECURSIVE Concat(_)
Concat(ss) == IF ss = <<>> THEN <<>> ELSE Head(ss) \o Concat(Tail(ss))

\* a row or a line on which the field extraction raises
HasRaisingCell(r) == \E i \in 1..Len(r) : r[i] = "<str() raises>"
IsRaisingLine(line) == line = "<split() raises>"

\* what a row and a line give when nothing else of the document is looked at
RowYield(r) == IF HasRaisingCell(r) THEN <<>> ELSE TableRowRecords(r)
LineYield(idx, all_lines) ==
    IF IsRaisingLine(all_lines[idx + 1]) THEN <<>>
    ELSE TextLineRecords(idx, all_lines)

TableYield(table) == Concat([i \in 1..Len(table) |-> RowYield(table[i])])
TextYield(text) ==
    LET ls == IF text = "" THEN <<>> ELSE SplitLines(text)
    IN Concat([i \in 1..Len(ls) |-> LineYield(i - 1, ls)])

\* the records of a page: those of all its tables when it has one, those of
\* its text otherwise
PageYield(page) ==
    IF Len(page.tables) >= 1
    THEN Concat([t \in 1..Len(page.tables) |-> TableYield(page.tables[t])])
    ELSE TextYield(page.text)

DocumentYield(d) == Concat([p \in 1..Len(d) |-> PageYield(d[p])])

\* C13: extraction keeps nothing between runs: any two runs on the same
\* document returned the same records in the same order, whatever was
\* extracted before and in between
C13_SameDocumentSameRecords ==
    \A i, j \in 1..Len(log) :
        log[i].pdf = log[j].pdf => log[i].records = log[j].records

\* the first and the third run are on one document, the run in between is on
\* another one that gives other records
C13_Witness ==
    /\ Len(log) = 3
    /\ log[1].pdf = log[3].pdf
    /\ log[2].pdf # log[1].pdf
    /\ log[1].records # <<>>
    /\ log[2].records # <<>>
    /\ log[2].records # log[1].records

\* C14: a page with at least one table is read in table mode only, all its
\* tables, a page without is read in text mode; extract_pdf_data returns the
\* records of the pages in page order, table by table and row by row (line
\* by line) within a page
C14_OneModePerPage ==
    Known =>
        /\ pc = "rows" => Len(Page.tables) >= 1
        /\ pc = "lines" => Len(Page.tables) = 0
        /\ pc = "pages" =>
              extracted_records = DocumentYield(SubSeq(pdf, 1, page_num))
        /\ pc = "extracted" => extracted_records = DocumentYield(pdf)

\* a page whose tables give no record and whose text holds a cheque line,
\* then a page without tables: the records are those of the second page
C14_Witness ==
    /\ pc = "extracted" /\ Known
    /\ Len(pdf) = 2
    /\ Len(pdf[1].tables) >= 1
    /\ \A t \in 1..Len(pdf[1].tables) : TableYield(pdf[1].tables[t]) = <<>>
    /\ TextYield(pdf[1].text) # <<>>
    /\ Len(pdf[2].tables) = 0
    /\ extracted_records = TextYield(pdf[2].text)
    /\ Len(extracted_records) = 2

\* C15: no extracted record, from a table or from text, has a pay_bank_name
\* that is a key of the fix table with another canonical name
C15_BankNamesCanonical ==
    \A i \in 1..Len(extracted_records) :
        LET name == extracted_records[i].pay_bank_name
        IN name \in DOMAIN BANK_NAME_FIXES => BANK_NAME_FIXES[name] = name

\* C17: a row or a line on which the field extraction raises adds no
\* record and ends nothing: the records so far stay, the loop goes on with
\* the row after it, and the document's other rows, tables and pages are all
\* in what extract_pdf_data returns
C17_RowErrorSkipsRow ==
    /\ [][ /\ (pc = "rows" /\ row_idx' = row_idx + 1 /\ HasRaisingCell(row')) =>
                (/\ page_records' = page_records
                 /\ extracted_records' = extracted_records
                 /\ pc' = "rows" /\ table_idx' = table_idx
                 /\ response' = NoResponse)
           /\ (pc = "lines" /\ row_idx' = row_idx + 1 /\ row_idx < Len(lines)
                 /\ IsRaisingLine(lines[row_idx + 1])) =>
                (/\ page_records' = page_records
                 /\ extracted_records' = extracted_records
                 /\ pc' = "lines" /\ lines' = lines
                 /\ response' = NoResponse)
         ]_vars
    /\ [](pc = "extracted" /\ Known => extracted_records = DocumentYield(pdf))

\* a table and a text page, each with a raising row between two cheques:
\* the four cheques are returned
C17_Witness ==
    /\ pc = "extracted" /\ Known
    /\ Len(pdf) = 2
    /\ \E t \in 1..Len(pdf[1].tables) : \E k \in 2..(Len(pdf[1].tables[t]) - 1) :
          /\ HasRaisingCell(pdf[1].tables[t][k])
          /\ RowYield(pdf[1].tables[t][k - 1]) # <<>>
          /\ RowYield(pdf[1].tables[t][k + 1]) # <<>>
    /\ \E k \in 1..Len(SplitLines(pdf[2].text)) : IsRaisingLine(SplitLines(pdf[2].text)[k])
    /\ Len(extracted_records) = 4

(***************************************************************************)
(* Properties of the helpers called on their own                           *)
(***************************************************************************)
HasAcceptedReason(record) == "reason" \in DOMAIN record /\ MentionsAccepted(record)

\* C11: filter_accepted_cheques returns the records whose reason contains
\* ACCEPTED in any letter case, in the order of the input and nothing else;
\* a record with another reason, an empty reason or no reason is dropped;
\* the input list is as it was
C11_AcceptedSubsequence ==
    /\ [](fn = "filter_accepted_cheques" =>
            LET W == {i \in 1..Len(args.data) : HasAcceptedReason(args.data[i])}
            IN /\ Len(ret) = Cardinality(W)
               /\ \A k \in 1..Len(ret) : ret[k] = args.data[Nth(W, k)])
    /\ [][fn' = "filter_accepted_cheques" => args' = args]_vars

\* the list ACCEPTED, INSUFFICIENT FUNDS, "": the first record is returned
C11_Witness ==
    /\ fn = "filter_accepted_cheques"
    /\ args.data = <<[cheque_number |-> "111111", reason |-> "ACCEPTED"],
                     [cheque_number |-> "222222", reason |-> "INSUFFICIENT FUNDS"],
                     [cheque_number |-> "333333", reason |-> ""]>>
    /\ ret = <<[cheque_number |-> "111111", reason |-> "ACCEPTED"]>>

\* a row the admission rules reject
Rejected(r) ==
    LET first == Upper(Strip(r[1]))
    IN \/ Len(r) < 9
       \/ first \in {"SESSION", "SN", "S.N", "S.N.", "SR", "NO", "SERIAL", "DATE",
                     "SEQUENCE"}
       \/ Contains(first, "TOTAL")
       \/ Contains(first, "END OF REPORT")

DigitsOfLength(s, lo, hi) == AllDigits(s) /\ Len(s) >= lo /\ Len(s) <= hi

\* the six primary columns of a 15-cell row each pass their field's test
PrimaryCellsValid(r) ==
    /\ Len(r) = 15
    /\ DigitsOfLength(Strip(r[10]), 12, 17)
    /\ DigitsOfLength(Strip(r[7]), 6, 10)
    /\ DigitsOfLength(Strip(r[8]), 3, 3)
    /\ IsAlpha(Strip(r[12]))
    /\ DigitsOfLength(Strip(r[13]), 8, 99)
    /\ Contains(r[14], ",") \/ Contains(r[14], ".")
    /\ CommaAmount(Strip(r[14])) # [u |-> 0, c |-> 0]

NamesDisposition(s) ==
    \E k \in {"INSUFFICIENT", "FUNDS", "ACCEPTED"} : Contains(Upper(s), k)

CanonicalName(name) ==
    CASE name = "CITIZE" -> "CITIZENS"
      [] name \in {"KUMA", "KUMARI"} -> "KUMARI"
      [] name \in {"SIDDH", "SIDDHA"} -> "SIDDHARTHA"
      [] name \in {"MACHI", "MACHA"} -> "MACHAPUCHARE"
      [] name = "SUNRI" -> "SUNRISE"
      [] OTHER -> name

\* C12: an admitted row whose primary columns 9, 6, 13, 7, 11 and 12 each
\* pass their field's test gives one record with the account of cell 9, the
\* cheque number of cell 6, the amount of cell 13, the branch of cell 7, the
\* canonical bank name of cell 11 and the pay account of cell 12, whatever
\* the other cells hold, and the reason of the backward scan; the row of the
\* scenario gives CITIZENS, 50000.0 and INSUFFICIENT FUNDS
C12_PrimaryColumns ==
    fn = "_extract_from_table" =>
        LET r == args.row
        IN /\ ~ Rejected(r) /\ PrimaryCellsValid(r) =>
                /\ Len(ret) = 1
                /\ ret[1].bfd_account = Strip(r[10])
                /\ ret[1].cheque_number = Strip(r[7])
                /\ ret[1].cheque_amount = CommaAmount(Strip(r[14]))
                /\ ret[1].branch_code = Strip(r[8])
                /\ ret[1].pay_bank_name = CanonicalName(Upper(Strip(r[12])))
                /\ ret[1].pay_account = Strip(r[13])
                /\ NamesDisposition(r[15]) => ret[1].reason = Upper(Strip(r[15]))
           /\ r = <<"1", "", "", "", "", "", "1234567", "255", "", "98765432109876",
                    "", "CITIZE", "12345678", "50,000.00", "INSUFFICIENT FUNDS">> =>
                ret = <<[bfd_account   |-> "98765432109876",
                         cheque_number |-> "1234567",
                         branch_code   |-> "255",
                         pay_bank_name |-> "CITIZENS",
                         pay_account   |-> "12345678",
                         cheque_amount |-> [u |-> 50000, c |-> 0],
                         reason        |-> "INSUFFICIENT FUNDS"]>>

\* the row of the scenario with a cheque number, an account, an amount, a
\* branch code and a bank name in the columns before the primary ones
C12_Witness ==
    /\ fn = "_extract_from_table"
    /\ PrimaryCellsValid(args.row)
    /\ args.row[2] = "654321" /\ args.row[3] = "99887766554433221"
    /\ args.row[4] = "9,999.99" /\ args.row[5] = "101" /\ args.row[6] = "NABIL"
    /\ args.row[12] = "CITIZE" /\ args.row[14] = "50,000.00"
    /\ Len(ret) = 1
    /\ ret[1].cheque_number = "1234567"
    /\ ret[1].pay_bank_name = "CITIZENS"
    /\ ret[1].cheque_amount = [u |-> 50000, c |-> 0]
    /\ ret[1].reason = "INSUFFICIENT FUNDS"

\* C16: a row of fewer than 9 cells, or with a header label as its first
\* cell (trimmed, in any letter case), or with TOTAL or END OF REPORT in it,
\* gives no record whatever its other cells hold; every other row goes
\* through the field extractors and gives a record when they find the
\* account, the amount and the cheque number
C16_RowAdmission ==
    fn = "_extract_from_table" =>
        /\ Rejected(args.row) => ret = <<>>
        /\ ~ Rejected(args.row) => (ret # <<>> <=> AllThreeOfRow(args.row))

\* a header label in lower case between blanks, in front of a valid cheque
C16_Witness ==
    /\ fn = "_extract_from_table"
    /\ args.row[1] = " sn "
    /\ Len(args.row) = 15
    /\ AllThreeOfRow(args.row)
    /\ ret = <<>>

\* the cells of a row that hold 12 to 17 digits
AccountCells(r) == {i \in 1..Len(r) : DigitsOfLength(Strip(r[i]), 12, 17)}

\* C18: the account extractor returns cell 9 when it holds 12 to 17 digits;
\* otherwise a longest cell of 12 to 17 digits and, of the longest, one
\* nearest to column 9; it finds nothing only when no cell qualifies
C18_AccountChoice ==
    fn = "_extract_bfd_account" =>
        LET r == args.row
            Q == AccountCells(r)
        IN IF 10 \in Q THEN ret = Strip(r[10])
           ELSE IF Q = {} THEN ret = ""
                ELSE \E i \in Q :
                        /\ ret = Strip(r[i])
                        /\ \A j \in Q :
                              /\ Len(Strip(r[j])) <= Len(Strip(r[i]))
                              /\ Len(Strip(r[j])) = Len(Strip(r[i]))
                                    => Abs(i - 10) <= Abs(j - 10)

\* column 9 does not qualify; 12 digits in column 8, 13 digits in columns 2
\* and 14: the account is the one of column 14
C18_Witness ==
    /\ fn = "_extract_bfd_account"
    /\ 10 \notin AccountCells(args.row)
    /\ AccountCells(args.row) = {3, 9, 15}
    /\ Len(args.row[9]) = 12 /\ Len(args.row[3]) = 13 /\ Len(args.row[15]) = 13
    /\ ret = args.row[15]

\* C19 as claimed: the return of the primary column is taken only for a
\* cell with a thousands separator or a decimal point and a value strictly
\* between 0 and 100,000,000
C19_PrimaryAsClaimed ==
    (fn = "_extract_amount" /\ ret.primary) =>
        (/\ (Contains(args.row[14], ",") \/ Contains(args.row[14], "."))
         /\ (ret.amount.u > 0 \/ ret.amount.c > 0)
         /\ ret.amount.u < 100000000)

\* the cells, or tokens, in comma / decimal form with a value in the bound,
\* and those of 3 bare digits or more
CommaForm(ps) == {i \in 1..Len(ps) : CommaAmount(Strip(ps[i])) # [u |-> 0, c |-> 0]}
BareForm(ps) == {i \in 1..Len(ps) : AllDigits(Strip(ps[i])) /\ Len(Strip(ps[i])) >= 3}

\* C20 as claimed: when the fallback scan of a row, or the amount extractor
\* of a line, meets a valid comma / decimal cell and a cell of 3 bare digits
\* or more, the amount is the value of a comma / decimal cell, wherever the
\* two stand
C20_CommaFormPreferred ==
    /\ (fn = "_extract_amount" /\ ~ ret.primary
          /\ CommaForm(args.row) # {} /\ BareForm(args.row) # {}) =>
          (\E i \in CommaForm(args.row) :
              ret.amount = CommaAmount(Strip(args.row[i])))
    /\ (fn = "_extract_amount_from_parts"
          /\ CommaForm(Split(args.lines[1])) # {}
          /\ BareForm(Split(args.lines[1])) # {}) =>
          (\E i \in CommaForm(Split(args.lines[1])) :
              ret = CommaAmount(Split(args.lines[1])[i]))

\* the text-mode half of C20 on its own
C20_TextCommaFormPreferred ==
    (fn = "_extract_amount_from_parts"
          /\ CommaForm(Split(args.lines[1])) # {}
          /\ BareForm(Split(args.lines[1])) # {}) =>
          (\E i \in CommaForm(Split(args.lines[1])) :
              ret = CommaAmount(Split(args.lines[1])[i]))

\* text of digits, commas and points with a digit in it
PurelyNumeric(s) ==
    /\ \E i \in 1..Len(s) : \E d \in 0..9 : SubSeq(s, i, i) = DigitText[d]
    /\ \A i \in 1..Len(s) :
          \/ SubSeq(s, i, i) \in {",", "."}
          \/ \E d \in 0..9 : SubSeq(s, i, i) = DigitText[d]

HasLetter(s) ==
    \E i \in 1..Len(s) : \E j \in 1..26 :
        SubSeq(s, i, i) \in {SubSeq(ascii_uppercase, j, j), SubSeq(ascii_lowercase, j, j)}

Keywords ==
    {"INSUFFICIENT", "SIGNATURE", "ACCOUNT", "CLOSED", "STOP", "PAYMENT",
     "DRAWER", "IRREGUL", "FUNDS", "REFER", "EXCEEDS", "AMOUNT", "WORDS",
     "FIGURES", "DIFFER", "POST", "DATED", "STALE", "MUTILATED", "CLEARING",
     "ENDORSEMENT", "ACCEPTED", "INVALID", "WRONG"}

\* the cells the backward scan does not skip and can return
ReasonCells(r) ==
    {i \in 1..Len(r) :
        LET s == Upper(Strip(r[i]))
        IN /\ r[i] # ""
           /\ ~ PurelyNumeric(s)
           /\ Len(s) >= 3
           /\ s \notin {"CLG", "BANK", "ENDORSEMENT", "BFD", "PAY", "ACCOUNT"}
           /\ \/ \E k \in Keywords : Contains(s, k)
              \/ Contains(s, " ") /\ HasLetter(s)}

\* column 13 holds 3 characters or more that are not a number
PrimaryReason(r) ==
    /\ Len(r) >= 14
    /\ Len(Strip(r[14])) >= 3
    /\ ~ PurelyNumeric(Strip(r[14]))

ReasonAsClaimed(r) ==
    IF PrimaryReason(r) THEN Upper(Strip(r[14]))
    ELSE IF ReasonCells(r) = {} THEN ""
         ELSE Upper(Strip(r[Max(ReasonCells(r))]))

\* C21: the reason extractor returns column 13, trimmed and in upper case,
\* when it holds 3 characters or more that are not a number; otherwise the
\* last cell that is not empty, not a number, not shorter than 3 characters
\* and not a stoplist word, and that holds a keyword or several words with a
\* letter; when there is none it finds nothing and the record's reason is
\* the empty string
C21_ReasonChoice ==
    /\ (fn = "_extract_reason") => (ret = ReasonAsClaimed(args.row))
    /\ (fn = "_extract_from_table" /\ ret # <<>>) =>
          (ret[1].reason = ReasonAsClaimed(args.row))

\* column 13 holds the amount; the last cell is a stoplist word and the
\* reason is the cell in front of the bank name
C21_Witness ==
    /\ fn = "_extract_reason"
    /\ Len(args.row) = 15
    /\ args.row[14] = "50,000.00"
    /\ args.row[15] = "Account"
    /\ args.row[11] = "Signature Differs"
    /\ ret = "SIGNATURE DIFFERS"

\* a record of a row in which the scan finds no reason
C21_NoReasonWitness ==
    /\ fn = "_extract_from_table"
    /\ Len(args.row) = 15
    /\ args.row[14] = "50,000.00"
    /\ args.row[15] = "12 34"
    /\ args.row[11] = "BANK"
    /\ Len(ret) = 1
    /\ ret[1].reason = ""

\* the reason of a record in upper case, and the records of each class
ReasonText(r) == Strip(Upper(r.reason))
Holds(r, words) == \E w \in words : Contains(ReasonText(r), w)
CountOf(d, P(_)) == Cardinality({i \in 1..Len(d) : P(d[i])})
InAccepted(r) == Holds(r, {"ACCEPTED"})
InInsufficient(r) == ~ InAccepted(r) /\ Holds(r, {"INSUFFICIENT", "FUNDS"})
InOther(r) == ~ InAccepted(r) /\ ~ Holds(r, {"INSUFFICIENT", "FUNDS"}) /\ ReasonText(r) # ""
InNoReason(r) == ReasonText(r) = ""

\* C23: the statistics count every record in one class, the first that fits
\* of accepted, insufficient funds, other reason, no reason; the four counts
\* add up to total_records and no_reason_count is the number of records with
\* an empty reason
C23_FourClasses ==
    (fn = "display_data_table") =>
        (/\ ret.total_records = Len(args.data)
         /\ ret.accepted_count = CountOf(args.data, InAccepted)
         /\ ret.insufficient_funds_count = CountOf(args.data, InInsufficient)
         /\ ret.other_reasons_count = CountOf(args.data, InOther)
         /\ ret.no_reason_count = CountOf(args.data, InNoReason)
         /\ ret.no_reason_count >= 0
         /\ ret.accepted_count + ret.insufficient_funds_count
              + ret.other_reasons_count + ret.no_reason_count = ret.total_records)

\* a reason that names both ACCEPTED and FUNDS, an insufficient-funds return
\* and a record without a reason
C23_Witness ==
    /\ fn = "display_data_table"
    /\ Len(args.data) = 3
    /\ args.data[1].reason = "Funds accepted"
    /\ args.data[2].reason = "insufficient"
    /\ args.data[3].reason = ""
    /\ ret.accepted_count = 1 /\ ret.insufficient_funds_count = 1
    /\ ret.other_reasons_count = 0 /\ ret.no_reason_count = 1

\* the number an amount cell holds
CellValue(val) ==
    IF "text" \in DOMAIN val
    THEN LET t    == val.text
             neg  == SubSeq(t, 1, 1) = "-"
             body == IF neg THEN SubSeq(t, 2, Len(t)) ELSE t
             dot  == CHOOSE i \in 1..(Len(body) + 1) :
                        /\ i = Len(body) + 1 \/ SubSeq(body, i, i) = "."
                        /\ \A j \in 1..(i - 1) : SubSeq(body, j, j) # "."
             frac == SubSeq(SubSeq(body, dot + 1, Len(body)) \o "00", 1, 2)
             sgn  == IF neg THEN 0 - 1 ELSE 1
         IN [u |-> sgn * NatOf(SubSeq(body, 1, dot - 1)), c |-> sgn * NatOf(frac)]
    ELSE val

\* a written row holds the cells of a ledger row, the amounts as numbers
WrittenFrom(out, in) ==
    /\ out.BRANCHCODE = in.BRANCHCODE
    /\ out.MAINCODE = in.MAINCODE
    /\ out.TRANCODE = in.TRANCODE
    /\ out.DESC1 = in.DESC1
    /\ out.DESC2 = in.DESC2
    /\ out.AMOUNT = CellValue(in.AMOUNT)
    /\ out.LCYAMOUNT = CellValue(in.LCYAMOUNT)

\* C22: the reconciled sheet is the header of the uploaded ledger, then K
\* rows of its originating-account block in ledger order, then the K rows
\* of the counterpart block at the same block positions; every cell of a
\* kept row but the two amounts is written as read, and the amounts as
\* numbers
C22_TwoBlocks ==
    (Done({"generate_final_batch"}) /\ response = File("final_batch.xls")) =>
        (LET N == Cardinality(Block("555"))
             K == Len(worksheet.rows) \div 2
         IN /\ worksheet.header = xls_file.header
            /\ K > 0 /\ Len(worksheet.rows) = 2 * K
            /\ N = Cardinality(Block("055"))
            /\ \E S \in SUBSET (1..N) :
                  /\ Cardinality(S) = K
                  /\ \A k \in 1..K :
                        /\ WrittenFrom(worksheet.rows[k], BlockRow("555", Nth(S, k)))
                        /\ WrittenFrom(worksheet.rows[K + k], BlockRow("055", Nth(S, k))))

\* a ledger of three pairs of which the first and the last are kept
C22_Witness ==
    /\ Done({"generate_final_batch"}) /\ response = File("final_batch.xls")
    /\ Cardinality(Block("555")) = 3
    /\ Len(worksheet.rows) = 4
    /\ worksheet.rows[1] = BlockRow("555", 1)
    /\ worksheet.rows[2] = BlockRow("555", 3)
    /\ worksheet.rows[3] = BlockRow("055", 1)
    /\ worksheet.rows[4] = BlockRow("055", 3)
    /\ BlockRow("555", 2).DESC2 # BlockRow("555", 1).DESC2

\* C24 as claimed: reconciling the full batch of a list of records against
\* the accepted cheque numbers of the same list gives the data rows of the
\* accepted batch of that list, in the same order, also when two records
\* share a cheque number
C24_ReconcileIsAcceptedBatch ==
    (fn = "generate_final_batch") => (ret.final = ret.accepted)

\* the same for the lists in which no two records share a cheque number
C24_DistinctNumbers ==
    (/\ fn = "generate_final_batch"
     /\ \A i, j \in 1..Len(args.data) :
           args.data[i].cheque_number = args.data[j].cheque_number => i = j) =>
        (ret.final = ret.accepted)

(***************************************************************************)
(* Properties of the temporary files                                       *)
(***************************************************************************)
\* the view has saved its uploads, and what follows is extraction and
\* generation
UploadsSaved ==
    /\ temp_pdf_path # ""
    /\ view = "generate_final_batch" => temp_xls_path # ""

\* C25 as claimed: when the request returns, no temporary file it made is
\* left on disk but those on which the removal itself failed - after a
\* batch, after an error response and after an exception in extraction or
\* generation
C25_TempFilesRemoved ==
    (pc = "done" /\ UploadsSaved) => (files \subseteq remove_failed)

\* every file whose name the view holds is removed or failed to be removed
C25_BoundPathsRemoved ==
    (pc = "done") =>
        (\A f \in files \ remove_failed :
            f \notin {temp_pdf_path, temp_xls_path, output_path})

\* the finally block leaves the response as the view made it
C25_ResponseKept ==
    [][(pc = "finally") => (response' = response /\ pc' = "done")]_vars

====
